---- MODULE Spec2Model ----
(***************************************************************************)
(* A model of brunzo: the .bru parser (extractBlockContent, stripBlocks,   *)
(* parseKvContent, parseBruFile), the schema restructuring                 *)
(* (restructureArrays) and the generator (generateComponentSchema,         *)
(* generateSchemas).                                                       *)
(*                                                                         *)
(* Text is a sequence of symbols.  A symbol is one character ("{", "}",    *)
(* ":", " ", "\n", ...) or a whole word the scanner only ever compares as  *)
(* a unit ("headers", "example", "true", ...).  Absent values (null,       *)
(* undefined) are the empty tuple None and a present value v is <<v>>.     *)
(***************************************************************************)
EXTENDS Integers, Sequences, FiniteSets, TLC

VARIABLES
    pc,             \* position of the operation under way
    content,        \* text handed to extractBlockContent / parseBruFile
    blockStartName, \* block name handed to extractBlockContent
    extracted,      \* what extractBlockContent returned
    kvLines,        \* the lines of the flat block handed to parseKvContent
    kv,             \* what parseKvContent returned
    doc,            \* the blocks the document text was written from
    bruFile,        \* what parseBruFile returned
    jsonSchema,     \* the draft schema handed to restructureArrays
    baseName,       \* the root name handed to restructureArrays
    restructured,   \* the heap restructureArrays leaves
    bruFiles,       \* the parsed documents handed to generateSchemas
    keep,           \* the keep argument of generateSchemas
    fsLog,          \* the file-system calls made so far, in order
    fileIdx,        \* the position of the loop over bruFiles
    documentedEndpoints,
    createdSchemas,
    inDirExists,    \* whether the input directory of the command line exists
    globThrows,     \* whether listing the input files fails
    files,          \* the .bru files the glob finds: what reading each one does
    parseIdx,       \* the position of the command line's loop over files
    console,        \* what the command line has logged, in order
    exitCode        \* the exit status, once the command line has ended

extractVars == <<content, blockStartName, extracted>>
kvVars == <<kvLines, kv>>
parseVars == <<doc, bruFile>>
restructureVars == <<jsonSchema, baseName, restructured>>
genVars == <<bruFiles, keep, fsLog, fileIdx, documentedEndpoints, createdSchemas>>
cliVars == <<inDirExists, globThrows, files, parseIdx, console, exitCode>>
vars == <<pc, extractVars, kvVars, parseVars, restructureVars, genVars, cliVars>>

None == <<>>
Some(v) == <<v>>

(***************************************************************************)
(* Bounds                                                                  *)
(***************************************************************************)
MaxTextLen == 5
MaxKvLines == 2
MaxPieces == 2
MaxProps == 2
MaxDepth == 6
MaxFiles == 2

(***************************************************************************)
(* Generic sequence helpers                                                *)
(***************************************************************************)
SeqsUpTo(S, n) == UNION { [1..k -> S] : k \in 0..n }

Min(S) == CHOOSE x \in S : \A y \in S : x <= y

\* x evaluated once, its value handed to F
With(x, F(_)) == CHOOSE r \in {F(v) : v \in {x}} : TRUE

IsWs(c) == c \in {" ", "\n"}

\* new RegExp(`${escapedName}\\s*:?\\s*\\{`): the position reached after
\* \s* from position j (1-based; Len+1 when the text is exhausted).
RECURSIVE SkipWs(_, _)
SkipWs(s, j) ==
    IF j <= Len(s) /\ IsWs(s[j]) THEN SkipWs(s, j + 1) ELSE j

\* Whether the header regex matches at position i; the result is the position
\* of the "{" the regex consumed, 0 when it does not match there.
HeaderBraceAt(s, name, i) ==
    IF i + Len(name) - 1 > Len(s) \/ SubSeq(s, i, i + Len(name) - 1) # name
    THEN 0
    ELSE LET j1 == SkipWs(s, i + Len(name))
             j2 == IF j1 <= Len(s) /\ s[j1] = ":" THEN j1 + 1 ELSE j1
             j3 == SkipWs(s, j2)
         IN  IF j3 <= Len(s) /\ s[j3] = "{" THEN j3 ELSE 0

\* content.match(regex).index: the leftmost position where the header regex
\* matches, 0 when there is no match.
RegexMatchFrom(s, name, i) ==
    With({k \in i..Len(s) : HeaderBraceAt(s, name, k) # 0},
         LAMBDA hits : IF hits = {} THEN 0 ELSE Min(hits))

RegexMatch(s, name) == RegexMatchFrom(s, name, 1)

\* content.indexOf(c, from): first position >= from holding c, 0 when none.
IndexOf(s, c, from) ==
    With({k \in from..Len(s) : s[k] = c},
         LAMBDA hits : IF hits = {} THEN 0 ELSE Min(hits))

\* A scanner without the depth counter: the first "}" closes the block.
ScanBracesEager(s, i, braceCount) ==
    LET c == IndexOf(s, "}", i)
    IN  IF c = 0 THEN <<Len(s) + 1, braceCount>> ELSE <<c + 1, 0>>

\* The while loop of extractBlockContent / stripBlocks: from position i with
\* the running braceCount, the pair <<i, braceCount>> at which the loop ends.
\* The iterations over symbols other than braces change nothing but i and
\* are taken in one step.
RECURSIVE ScanBraces(_, _, _)
ScanBraces(s, i, braceCount) ==
    IF i <= Len(s) /\ braceCount > 0
    THEN LET braces == {k \in i..Len(s) : s[k] \in {"{", "}"}}
         IN  IF braces = {} THEN <<Len(s) + 1, braceCount>>
             ELSE \* one bound value, so that the count is computed once
                  With(<<Min(braces),
                         IF s[Min(braces)] = "{" THEN braceCount + 1 ELSE braceCount - 1>>,
                       LAMBDA a : ScanBraces(s, a[1] + 1, a[2]))
    ELSE <<i, braceCount>>

ExtractFromBrace(s, openBraceIndex) ==
    LET r == ScanBraces(s, openBraceIndex + 1, 1)
    IN  IF r[2] = 0
        THEN Some(SubSeq(s, openBraceIndex + 1, r[1] - 2))
        ELSE None

extractBlockContent(s, name) ==
    LET m == RegexMatch(s, name)
    IN  IF m = 0 THEN None
        ELSE LET openBraceIndex == IndexOf(s, "{", m)
             IN  IF openBraceIndex = 0 THEN None
                 ELSE ExtractFromBrace(s, openBraceIndex)

\* stripBlocks: removes every block the header regex finds, from the header's
\* first symbol to its closing brace; stops at the first header whose braces
\* never balance.
RECURSIVE stripBlocks(_, _)
stripBlocks(s, name) ==
    LET m == RegexMatch(s, name)
    IN  IF m = 0 THEN s
        ELSE LET openBraceIndex == IndexOf(s, "{", m)
             IN  IF openBraceIndex = 0 THEN s
                 ELSE LET r == ScanBraces(s, openBraceIndex + 1, 1)
                      IN  IF r[2] = 0
                          THEN stripBlocks(SubSeq(s, 1, m - 1) \o SubSeq(s, r[1], Len(s)), name)
                          ELSE s

(***************************************************************************)
(* parseKvContent                                                          *)
(***************************************************************************)
\* blockContent.split('\n')
RECURSIVE SplitLines(_)
SplitLines(s) ==
    LET n == IndexOf(s, "\n", 1)
    IN  IF n = 0 THEN <<s>>
        ELSE <<SubSeq(s, 1, n - 1)>> \o SplitLines(SubSeq(s, n + 1, Len(s)))

RECURSIVE TrimStart(_)
TrimStart(t) == IF t # <<>> /\ IsWs(t[1]) THEN TrimStart(Tail(t)) ELSE t

RECURSIVE TrimEnd(_)
TrimEnd(t) ==
    IF t # <<>> /\ IsWs(t[Len(t)]) THEN TrimEnd(SubSeq(t, 1, Len(t) - 1)) ELSE t

\* String.prototype.trim
Trim(t) == TrimEnd(TrimStart(t))

StartsWith(t, p) == Len(t) >= Len(p) /\ SubSeq(t, 1, Len(p)) = p

\* the typed values a flat block's entry can take
KvBool(b) == [type |-> "boolean", bool |-> b, num |-> 0, str |-> <<>>]
KvNum(n) == [type |-> "number", bool |-> FALSE, num |-> n, str |-> <<>>]
KvStr(v) == [type |-> "string", bool |-> FALSE, num |-> 0, str |-> v]

Digits == {"0", "1", "2", "4"}

DigitValue == [c \in Digits |-> CASE c = "0" -> 0 [] c = "1" -> 1 [] c = "2" -> 2 [] c = "4" -> 4]

\* !isNaN(Number(value)) && value !== '' on the symbols of the model: a
\* non-empty run of digits (a letter, a colon, an inner blank make it NaN)
IsNumeric(v) == v # <<>> /\ \A k \in 1..Len(v) : v[k] \in DOMAIN DigitValue

\* Number(value) of a run of digits
RECURSIVE NumberOf(_)
NumberOf(v) ==
    IF v = <<>> THEN 0
    ELSE NumberOf(SubSeq(v, 1, Len(v) - 1)) * 10 + DigitValue[v[Len(v)]]

\* a coercion that forgets the value !== '' test: Number('') is 0
CoerceEmptyAsZero(value) ==
    IF value = <<"true">> THEN KvBool(TRUE)
    ELSE IF value = <<"false">> THEN KvBool(FALSE)
    ELSE IF value = <<>> \/ IsNumeric(value) THEN KvNum(NumberOf(value))
    ELSE KvStr(value)

\* the if / else-if chain that types a value
Coerce(value) ==
    IF value = <<"true">> THEN KvBool(TRUE)
    ELSE IF value = <<"false">> THEN KvBool(FALSE)
    ELSE IF IsNumeric(value) THEN KvNum(NumberOf(value))
    ELSE KvStr(value)

\* result[key] = value on a plain object: a key already there keeps its place
\* and takes the new value; a primitive assigned to __proto__ is dropped.
KvPut(result, key, value) ==
    IF key = <<"__proto__">> THEN result
    ELSE IF \E j \in 1..Len(result) : result[j][1] = key
    THEN [j \in 1..Len(result) |->
            IF result[j][1] = key THEN <<key, value>> ELSE result[j]]
    ELSE Append(result, <<key, value>>)

\* one iteration of the for loop over the lines
KvLine(result, line) ==
    LET trimmed == Trim(line)
    IN  IF trimmed = <<>> \/ StartsWith(trimmed, <<"/", "/">>)
                          \/ StartsWith(trimmed, <<"#">>)
        THEN result
        ELSE LET colonIndex == IndexOf(trimmed, ":", 1)
             IN  IF colonIndex = 0 THEN result
                 ELSE KvPut(result,
                            Trim(SubSeq(trimmed, 1, colonIndex - 1)),
                            Coerce(Trim(SubSeq(trimmed, colonIndex + 1, Len(trimmed)))))

RECURSIVE KvLoop(_, _, _)
KvLoop(result, lines, i) ==
    IF i > Len(lines) THEN result
    ELSE KvLoop(KvLine(result, lines[i]), lines, i + 1)

parseKvContent(blockContent) ==
    LET result == KvLoop(<<>>, SplitLines(blockContent), 1)
    IN  IF Len(result) > 0 THEN Some(result) ELSE None

(***************************************************************************)
(* parseBruFile                                                            *)
(***************************************************************************)
\* JS truthiness of a string | null: null and '' are falsy
Truthy(opt) == opt # None /\ opt[1] # <<>>

\* JSON5.parse on the literals of the model: an object literal "{" members "}"
\* whose members ("a", "b": one key/value pair each) are separated by single
\* commas, a trailing comma allowed, blanks anywhere.  The value is the
\* object's members in first-insertion order; anything else throws (None).
JsonMembers == {"a", "b"}

RECURSIVE DropWs(_)
DropWs(t) ==
    IF t = <<>> THEN <<>>
    ELSE IF IsWs(t[1]) THEN DropWs(Tail(t))
    ELSE <<t[1]>> \o DropWs(Tail(t))

RECURSIVE MembersOf(_, _)
MembersOf(toks, acc) ==
    IF toks = <<>> THEN acc
    ELSE IF toks[1] \in JsonMembers /\ ~(\E j \in 1..Len(acc) : acc[j] = toks[1])
    THEN MembersOf(Tail(toks), Append(acc, toks[1]))
    ELSE MembersOf(Tail(toks), acc)

JSON5Parse(lit) ==
    LET t == DropWs(lit)
        inner == SubSeq(t, 2, Len(t) - 1)
    IN  IF /\ Len(t) >= 2 /\ t[1] = "{" /\ t[Len(t)] = "}"
           /\ \A k \in 1..Len(inner) :
                 IF k % 2 = 1 THEN inner[k] \in JsonMembers ELSE inner[k] = ","
        THEN Some(MembersOf(inner, <<>>))
        ELSE None

\* /example\s*\{/ at position i: the position of its "{", 0 when no match
ExampleBraceAt(s, i) ==
    IF i > Len(s) \/ s[i] # "example" THEN 0
    ELSE LET j == SkipWs(s, i + 1)
         IN  IF j <= Len(s) /\ s[j] = "{" THEN j ELSE 0

\* exampleRegex.exec(content) with lastIndex = from - 1: index of the next match
ExampleExec(s, from) ==
    With({k \in from..Len(s) : ExampleBraceAt(s, k) # 0},
         LAMBDA hits : IF hits = {} THEN 0 ELSE Min(hits))

\* the end of the run of digits that starts at j
RECURSIVE DigitsEnd(_, _)
DigitsEnd(s, j) ==
    IF j <= Len(s) /\ s[j] \in Digits THEN DigitsEnd(s, j + 1) ELSE j

\* statusBlock.match(/code:\s*(\d+)/) and parseInt(codeMatch[1], 10)
StatusCodeOf(statusBlock) ==
    LET hits == {i \in 1..Len(statusBlock) :
                    /\ statusBlock[i] = "code"
                    /\ i + 1 <= Len(statusBlock) /\ statusBlock[i + 1] = ":"
                    /\ LET j == SkipWs(statusBlock, i + 2)
                       IN  j <= Len(statusBlock) /\ statusBlock[j] \in Digits}
    IN  IF hits = {} THEN None
        ELSE LET j == SkipWs(statusBlock, Min(hits) + 2)
             IN  Some(NumberOf(SubSeq(statusBlock, j, DigitsEnd(statusBlock, j) - 1)))

\* the symbols standing for the quote marks of a content literal
TripleQuote == "ttt"
DoubleQuote == "q"

\* bodyBlock.match(/content:\s*Q([\s\S]*?)Q/)[1] for a quote symbol Q
QuotedContent(b, q) ==
    LET hits == {i \in 1..Len(b) :
                    /\ b[i] = "content"
                    /\ i + 1 <= Len(b) /\ b[i + 1] = ":"
                    /\ LET j == SkipWs(b, i + 2)
                       IN  /\ j <= Len(b) /\ b[j] = q
                           /\ IndexOf(b, q, j + 1) # 0}
    IN  IF hits = {} THEN None
        ELSE LET j == SkipWs(b, Min(hits) + 2)
             IN  Some(SubSeq(b, j + 1, IndexOf(b, q, j + 1) - 1))

\* bodyBlock.match(/content:\s*([\s\S]+)/)[1]: the rest of the block; when
\* only blanks follow, \s* gives its last blank back to the group
BareContent(b) ==
    LET hits == {i \in 1..Len(b) :
                    /\ b[i] = "content"
                    /\ i + 1 <= Len(b) /\ b[i + 1] = ":"
                    /\ i + 2 <= Len(b)}
    IN  IF hits = {} THEN None
        ELSE LET j == SkipWs(b, Min(hits) + 2)
             IN  IF j <= Len(b) THEN Some(SubSeq(b, j, Len(b)))
                 ELSE Some(<<b[Len(b)]>>)

ContentMatch(b) ==
    IF QuotedContent(b, TripleQuote) # None THEN QuotedContent(b, TripleQuote)
    ELSE IF QuotedContent(b, DoubleQuote) # None THEN QuotedContent(b, DoubleQuote)
    ELSE BareContent(b)

\* the response body that keeps the text of a literal that does not parse
ResponseBodyOfRawOnFailure(responseContent) ==
    LET bodyBlock == extractBlockContent(responseContent, <<"body">>)
    IN  IF ~Truthy(bodyBlock) THEN None
        ELSE LET contentMatch == ContentMatch(bodyBlock[1])
             IN  IF contentMatch = None THEN None
                 ELSE IF JSON5Parse(Trim(contentMatch[1])) = None
                 THEN Some(Trim(contentMatch[1]))
                 ELSE JSON5Parse(Trim(contentMatch[1]))

\* the response body of one example: undefined unless a literal is found and parses
ResponseBodyOf(responseContent) ==
    LET bodyBlock == extractBlockContent(responseContent, <<"body">>)
    IN  IF ~Truthy(bodyBlock) THEN None
        ELSE LET contentMatch == ContentMatch(bodyBlock[1])
             IN  IF contentMatch = None THEN None
                 ELSE JSON5Parse(Trim(contentMatch[1]))

KvBlockOf(text, name) ==
    LET blk == extractBlockContent(text, name)
    IN  IF Truthy(blk) THEN parseKvContent(blk[1]) ELSE None

\* a test that lets a status code of 0 through and forgets statusCodesSeen
AcceptsStatusAlways(statusCode, responses) == statusCode # None

\* if (statusCode && !statusCodesSeen.has(statusCode))
AcceptsStatus(statusCode, responses) ==
    /\ statusCode # None
    /\ statusCode[1] # 0
    /\ ~(\E j \in 1..Len(responses) : responses[j].statusCode = statusCode[1])

\* the body of the while loop for the example whose header starts at m
ExampleStep(s, m, responses) ==
    LET exampleContent == extractBlockContent(SubSeq(s, m, Len(s)), <<"example">>)
    IN  IF ~Truthy(exampleContent) THEN responses
        ELSE LET responseContent == extractBlockContent(exampleContent[1], <<"response">>)
             IN  IF ~Truthy(responseContent) THEN responses
                 ELSE LET statusBlock == extractBlockContent(responseContent[1], <<"status">>)
                          statusCode == IF Truthy(statusBlock)
                                        THEN StatusCodeOf(statusBlock[1]) ELSE None
                      IN  IF AcceptsStatus(statusCode, responses)
                          THEN Append(responses,
                                      [statusCode |-> statusCode[1],
                                       body |-> ResponseBodyOf(responseContent[1]),
                                       headers |-> KvBlockOf(responseContent[1], <<"headers">>)])
                          ELSE responses

\* while ((exampleMatch = exampleRegex.exec(content)) !== null) { ... }
RECURSIVE ExampleLoop(_, _, _)
ExampleLoop(s, from, responses) ==
    LET m == ExampleExec(s, from)
    IN  IF m = 0 THEN responses
        ELSE ExampleLoop(s, ExampleBraceAt(s, m) + 1, ExampleStep(s, m, responses))

\* the document-level body: null unless a body:json block is found and parses
TopBodyOf(cleanContent) ==
    LET bodyContent == extractBlockContent(cleanContent, <<"body", ":", "json">>)
    IN  IF Truthy(bodyContent) THEN JSON5Parse(bodyContent[1]) ELSE None

\* const cleanContent = stripBlocks(content, 'example')
CleanContent(s) == stripBlocks(s, <<"example">>)

parseBruFile(s) ==
    With(<<ExampleLoop(s, 1, <<>>), CleanContent(s)>>, LAMBDA a :
        LET responses == a[1]
            cleanContent == a[2]
        IN  [body |-> TopBodyOf(cleanContent),
             headers |-> KvBlockOf(cleanContent, <<"headers">>),
             query |-> KvBlockOf(cleanContent, <<"params", ":", "query">>),
             params |-> KvBlockOf(cleanContent, <<"params", ":", "path">>),
             responses |-> IF Len(responses) > 0 THEN Some(responses) ELSE None])

(***************************************************************************)
(* Naming: toPascalCase, toCamelCase.  Names are sequences of characters.  *)
(***************************************************************************)
LowerAlphabet ==
    <<"a", "b", "c", "d", "e", "f", "g", "h", "i", "j", "k", "l", "m",
      "n", "o", "p", "q", "r", "s", "t", "u", "v", "w", "x", "y", "z">>

UpperAlphabet ==
    <<"A", "B", "C", "D", "E", "F", "G", "H", "I", "J", "K", "L", "M",
      "N", "O", "P", "Q", "R", "S", "T", "U", "V", "W", "X", "Y", "Z">>

LowerLetters == {LowerAlphabet[i] : i \in DOMAIN LowerAlphabet}

UpperLetters == {UpperAlphabet[i] : i \in DOMAIN UpperAlphabet}

DecimalDigits == <<"0", "1", "2", "3", "4", "5", "6", "7", "8", "9">>

\* String.prototype.toUpperCase on one character
UpperOf(c) ==
    IF c \in LowerLetters
    THEN UpperAlphabet[CHOOSE i \in DOMAIN LowerAlphabet : LowerAlphabet[i] = c]
    ELSE c

\* String.prototype.toLowerCase on one character
LowerOf(c) ==
    IF c \in UpperLetters
    THEN LowerAlphabet[CHOOSE i \in DOMAIN UpperAlphabet : UpperAlphabet[i] = c]
    ELSE c

IsAlnum(c) ==
    c \in LowerLetters \cup UpperLetters \cup {DecimalDigits[i] : i \in DOMAIN DecimalDigits}

\* \w of the regex: letters, digits and the underscore
IsWordChar(c) == IsAlnum(c) \/ c = "_"

\* str.replace(/(?:^\w|[A-Z]|\b\w)/g, up).replace(/\s+/g, '').replace(/[^a-zA-Z0-9]/g, '')
toPascalCase(str) ==
    LET up == [i \in 1..Len(str) |->
                 IF IsWordChar(str[i]) /\ (i = 1 \/ ~IsWordChar(str[i - 1]))
                 THEN UpperOf(str[i]) ELSE str[i]]
    IN  SelectSeq(up, IsAlnum)

\* pascal.charAt(0).toLowerCase() + pascal.slice(1)
toCamelCase(str) ==
    LET pascal == toPascalCase(str)
    IN  IF pascal = <<>> THEN <<>>
        ELSE <<LowerOf(pascal[1])>> \o Tail(pascal)

ItemSuffix == <<"I", "t", "e", "m">>

(***************************************************************************)
(* urlToPathName: the PascalCase path of a request URL                     *)
(***************************************************************************)
\* url.replace(/\{\{[^}]+\}\}/g, ''): a template variable is {{, one or more
\* characters other than }, then }}
RECURSIVE RemoveTemplates(_, _)
RemoveTemplates(s, i) ==
    IF i > Len(s) THEN <<>>
    ELSE LET k == IndexOf(s, "}", i + 2)
             isVar == /\ i + 1 <= Len(s) /\ s[i] = "{" /\ s[i + 1] = "{"
                      /\ k > i + 2 /\ k + 1 <= Len(s) /\ s[k + 1] = "}"
         IN  IF isVar THEN RemoveTemplates(s, k + 2)
             ELSE <<s[i]>> \o RemoveTemplates(s, i + 1)

\* cleaned.replace(/^https?:\/\/[^/]*/, '')
StripOrigin(s) ==
    LET http == <<"h", "t", "t", "p">>
        sep == <<":", "/", "/">>
        n == IF StartsWith(s, http \o <<"s">> \o sep) THEN 8
             ELSE IF StartsWith(s, http \o sep) THEN 7
             ELSE 0
        slash == IndexOf(s, "/", n + 1)
    IN  IF n = 0 THEN s
        ELSE IF slash = 0 THEN <<>>
        ELSE SubSeq(s, slash, Len(s))

\* cleaned.replace(/[?#].*$/, '')
StripQuery(s) ==
    LET cuts == {i \in 1..Len(s) : s[i] \in {"?", "#"}}
    IN  IF cuts = {} THEN s ELSE SubSeq(s, 1, Min(cuts) - 1)

\* cleaned.replace(/^\/+|\/+$/g, '')
RECURSIVE StripSlashes(_)
StripSlashes(s) ==
    IF s # <<>> /\ Head(s) = "/" THEN StripSlashes(Tail(s))
    ELSE IF s # <<>> /\ s[Len(s)] = "/" THEN StripSlashes(SubSeq(s, 1, Len(s) - 1))
    ELSE s

\* cleaned.split('/').filter(Boolean)
RECURSIVE PathSegments(_)
PathSegments(s) ==
    IF s = <<>> THEN <<>>
    ELSE LET slash == IndexOf(s, "/", 1)
             first == IF slash = 0 THEN s ELSE SubSeq(s, 1, slash - 1)
             rest == IF slash = 0 THEN <<>> ELSE SubSeq(s, slash + 1, Len(s))
         IN  IF first = <<>> THEN PathSegments(rest)
             ELSE <<first>> \o PathSegments(rest)

\* segment.replace(/^:/, '').replace(/^\{|\}$/g, '')
CleanSegment(seg) ==
    LET s1 == IF seg # <<>> /\ Head(seg) = ":" THEN Tail(seg) ELSE seg
        s2 == IF s1 # <<>> /\ Head(s1) = "{" THEN Tail(s1) ELSE s1
    IN  IF s2 # <<>> /\ s2[Len(s2)] = "}" THEN SubSeq(s2, 1, Len(s2) - 1) ELSE s2

RECURSIVE JoinPascal(_)
JoinPascal(segments) ==
    IF segments = <<>> THEN <<>>
    ELSE toPascalCase(CleanSegment(Head(segments))) \o JoinPascal(Tail(segments))

urlToPathName(url) ==
    LET cleaned == StripSlashes(StripQuery(StripOrigin(RemoveTemplates(url, 1))))
    IN  IF cleaned = <<>> THEN <<>> ELSE JoinPascal(PathSegments(cleaned))

(***************************************************************************)
(* Draft schemas.  A node is a record: type ("object", "array", a scalar   *)
(* type, or "" for a pure reference), ref (the $ref target, absent or       *)
(* present), items (the item schema of an array) and props (the ordered    *)
(* property mapping of an object, a sequence of <<key, node>>).            *)
(***************************************************************************)
Scalar(t) == [type |-> t, ref |-> None, items |-> None, props |-> <<>>]
Ref(n) == [type |-> "", ref |-> Some(n), items |-> None, props |-> <<>>]
Arr(item) == [type |-> "array", ref |-> None, items |-> Some(item), props |-> <<>>]
Obj(props) == [type |-> "object", ref |-> None, items |-> None, props |-> props]

PropIndex(obj, key) ==
    CHOOSE j \in 1..Len(obj.props) : obj.props[j][1] = key

\* obj.properties[key] = node
SetProp(obj, key, node) ==
    [obj EXCEPT !.props = [j \in 1..Len(obj.props) |->
                              IF obj.props[j][1] = key THEN <<key, node>> ELSE obj.props[j]]]

(***************************************************************************)
(* The heap restructureArrays works on: the root schema object (id 0) and  *)
(* the definitions mapping, an ordered list of entries [name, node, id].   *)
(* The id tells one object from another: assigning definitions[name]       *)
(* replaces the object under the name, and whoever still holds the old     *)
(* object goes on mutating an object that is no longer in the mapping.     *)
(* assigned lists the names assigned by restructuring, in order.           *)
(***************************************************************************)
HasDef(S, name) == \E j \in 1..Len(S.defs) : S.defs[j].name = name

DefIndex(S, name) == CHOOSE j \in 1..Len(S.defs) : S.defs[j].name = name

GetDef(S, name) == S.defs[DefIndex(S, name)].node

\* definitions[name] = node: a key already there keeps its place
PutDef(S, name, node) ==
    IF HasDef(S, name)
    THEN [S EXCEPT !.defs[DefIndex(S, name)] = [name |-> name, node |-> node, id |-> S.next],
                   !.next = S.next + 1,
                   !.assigned = Append(S.assigned, name)]
    ELSE [S EXCEPT !.defs = Append(S.defs, [name |-> name, node |-> node, id |-> S.next]),
                   !.next = S.next + 1,
                   !.assigned = Append(S.assigned, name)]

\* the object with identity id takes the value obj, wherever it still lives
WriteBack(S, id, obj) ==
    IF id = 0 THEN [S EXCEPT !.root = obj]
    ELSE [S EXCEPT !.defs = [j \in 1..Len(S.defs) |->
                                IF S.defs[j].id = id
                                THEN [S.defs[j] EXCEPT !.node = obj]
                                ELSE S.defs[j]]]

\* obj.properties[key] = { type: 'array', items: { $ref: itemName } }
ArrayProperty(arrayName, itemName) == Arr(Ref(itemName))

\* prop.type === 'object' && prop.properties
LiftsInlineObject(prop) == prop.type = "object"

\* processObject(obj, currentName): obj is the object with identity id.  The
\* result is the heap and the value obj has when the call returns.  fuel
\* bounds the depth of the recursion; running out of it is the call stack
\* overflowing (overflow).
RECURSIVE processObject(_, _, _, _, _)
RECURSIVE ProcessKeys(_, _, _, _, _, _, _)

ProcessKeys(S, id, obj, currentName, keys, i, fuel) ==
    IF i > Len(keys) \/ S.overflow THEN [S |-> S, obj |-> obj]
    ELSE
    LET key == keys[i]
        prop == obj.props[PropIndex(obj, key)][2]
        arrayName == currentName \o toPascalCase(key)
        itemName == arrayName \o ItemSuffix
        objectName == currentName \o toPascalCase(key)
        \* the definition is assigned, the property rewritten, the definition walked
        Lift(name, node, newProp) ==
            With(<<PutDef(S, name, node), SetProp(obj, key, newProp)>>, LAMBDA a :
            With(WriteBack(a[1], id, a[2]), LAMBDA S1 :
            With(processObject(S1, S.next, node, name, fuel - 1).S, LAMBDA S2 :
                ProcessKeys(S2, id, a[2], currentName, keys, i + 1, fuel))))
    IN  IF prop.type = "array" THEN
            LET itemSchema == prop.items[1]
                lifted ==
                    IF itemSchema.ref # None
                    THEN IF HasDef(S, itemSchema.ref[1])
                         THEN Some(GetDef(S, itemSchema.ref[1]))
                         ELSE None
                    ELSE Some(itemSchema)
            IN  \* the item definition is assigned and walked, then the property rewritten
                With(<<IF lifted = None THEN S ELSE PutDef(S, itemName, lifted[1]),
                       SetProp(obj, key, ArrayProperty(arrayName, itemName))>>, LAMBDA a :
                With(IF lifted = None THEN a[1]
                     ELSE processObject(a[1], S.next, lifted[1], itemName, fuel - 1).S, LAMBDA S2 :
                With(WriteBack(S2, id, a[2]), LAMBDA S3 :
                    ProcessKeys(S3, id, a[2], currentName, keys, i + 1, fuel))))
        ELSE IF LiftsInlineObject(prop) THEN
            Lift(objectName, prop, Ref(objectName))
        ELSE IF prop.ref # None /\ HasDef(S, prop.ref[1]) /\ prop.ref[1] # objectName THEN
            Lift(objectName, GetDef(S, prop.ref[1]), Ref(objectName))
        ELSE ProcessKeys(S, id, obj, currentName, keys, i + 1, fuel)

processObject(S, id, obj, currentName, fuel) ==
    IF fuel = 0 THEN [S |-> [S EXCEPT !.overflow = TRUE], obj |-> obj]
    ELSE IF obj.type # "object" THEN [S |-> S, obj |-> obj]
    ELSE ProcessKeys(S, id, obj, currentName,
                     [j \in 1..Len(obj.props) |-> obj.props[j][1]], 1, fuel)

\* the heap a draft schema (root object, definitions name -> node) starts as
HeapOf(root, defs) ==
    [root |-> root,
     defs |-> [j \in 1..Len(defs) |-> [name |-> defs[j][1], node |-> defs[j][2], id |-> j]],
     next |-> Len(defs) + 1,
     assigned |-> <<>>,
     overflow |-> FALSE]

restructureArrays(root, defs, rootName, fuel) ==
    LET S0 == HeapOf(root, defs)
    IN  processObject(S0, 0, S0.root, rootName, fuel).S

(***************************************************************************)
(* generateComponentSchema.  The sample-to-schema inferencer and the       *)
(* schema-to-code renderer are external: a component's data carries the    *)
(* draft schema the inferencer returns for it (root, defs), and a rendered *)
(* declaration is the pair of its name and the schema it was rendered      *)
(* from.                                                                   *)
(***************************************************************************)
SchemaSuffix == <<"S", "c", "h", "e", "m", "a">>

Absent == [kind |-> "absent", root |-> Obj(<<>>), defs |-> <<>>]
EmptyData == [kind |-> "empty", root |-> Obj(<<>>), defs |-> <<>>]
Payload(root, defs) == [kind |-> "payload", root |-> root, defs |-> defs]

\* a test that lets the empty object through
IsEmptyDataOnlyAbsent(data) == data.kind = "absent"

\* !data || (typeof data === 'object' && Object.keys(data).length === 0)
IsEmptyData(data) == data.kind \in {"absent", "empty"}

\* the root reference of the inferencer's result replaced by its definition,
\* which is deleted from the definitions
UnwrapRoot(schema) ==
    IF schema.root.ref # None
       /\ \E j \in 1..Len(schema.defs) : schema.defs[j][1] = schema.root.ref[1]
    THEN LET refName == schema.root.ref[1]
             at == CHOOSE j \in 1..Len(schema.defs) : schema.defs[j][1] = refName
         IN  [root |-> schema.defs[at][2],
              defs |-> SelectSeq(schema.defs, LAMBDA d : d[1] # refName)]
    ELSE schema

\* const: `__REF__${name}`, and what the assembly makes of it
Marker(name) == [type |-> "const", ref |-> Some(name), items |-> None, props |-> <<>>]
Lazy(name) == [type |-> "lazy", ref |-> Some(name), items |-> None, props |-> <<>>]

\* refMap[key]
SchemaNameOf(key) == toCamelCase(toPascalCase(key)) \o SchemaSuffix

RECURSIVE replaceRefsWithMarkers(_, _)
replaceRefsWithMarkers(node, S) ==
    IF node.ref # None THEN
        IF node.type = "" /\ HasDef(S, node.ref[1])
        THEN Marker(SchemaNameOf(node.ref[1]))
        ELSE node
    ELSE [node EXCEPT
            !.items = IF node.items = None THEN None
                      ELSE Some(replaceRefsWithMarkers(node.items[1], S)),
            !.props = [j \in 1..Len(node.props) |->
                         <<node.props[j][1], replaceRefsWithMarkers(node.props[j][2], S)>>]]

\* `export type ${typeName} = z.infer<typeof ${schemaName}>;`
TypeExport(typeName, schemaName) == <<typeName, schemaName>>

\* jsonSchemaToZod(schema, { name })
ZodSegment(name, schema) == [name |-> name, schema |-> schema]

generateComponentSchema(name, data) ==
    IF IsEmptyData(data) THEN [zodSegments |-> <<>>, typeExports |-> <<>>, threw |-> FALSE]
    ELSE
    With(<<toPascalCase(name), UnwrapRoot([root |-> data.root, defs |-> data.defs])>>, LAMBDA a :
    With(restructureArrays(a[2].root, a[2].defs, a[1], MaxDepth), LAMBDA S :
        \* the call stack overflowed inside restructureArrays: the promise rejects
        IF S.overflow THEN [zodSegments |-> <<>>, typeExports |-> <<>>, threw |-> TRUE]
        ELSE
        LET base == a[1]
            defKeys == [j \in 1..Len(S.defs) |-> S.defs[j].name]
            mainSchemaName == toCamelCase(base) \o SchemaSuffix
        IN  [zodSegments |->
                [j \in 1..Len(defKeys) |->
                    ZodSegment(SchemaNameOf(defKeys[j]),
                               replaceRefsWithMarkers(S.defs[j].node, S))]
                \o <<ZodSegment(mainSchemaName, replaceRefsWithMarkers(S.root, S))>>,
             typeExports |->
                [j \in 1..Len(defKeys) |->
                    TypeExport(toPascalCase(defKeys[j]), SchemaNameOf(defKeys[j]))]
                \o <<TypeExport(base, mainSchemaName)>>,
             threw |-> FALSE]))

(***************************************************************************)
(* generateSchemas: the per-document part                                   *)
(***************************************************************************)
\* `${response.statusCode}`
RECURSIVE DecimalOf(_)
DecimalOf(n) ==
    IF n < 10 THEN <<DecimalDigits[n + 1]>>
    ELSE DecimalOf(n \div 10) \o <<DecimalDigits[(n % 10) + 1]>>

BodySuffix == <<"B", "o", "d", "y">>
HeaderSuffix == <<"H", "e", "a", "d", "e", "r">>
QuerySuffix == <<"Q", "u", "e", "r", "y">>
ParamsSuffix == <<"P", "a", "r", "a", "m", "s">>

\* the base name taken from the display name of the document
BaseNameOfDisplayName(file) == toPascalCase(file.name)

\* toPascalCase(file.method) + urlToPathName(file.url)
BaseNameOf(file) == toPascalCase(file.method) \o urlToPathName(file.url)

\* `${baseName}.ts`
FileNameOf(file) == BaseNameOf(file) \o <<".", "t", "s">>

RECURSIVE ResponseComponents(_)
ResponseComponents(responses) ==
    IF responses = <<>> THEN <<>>
    ELSE LET response == Head(responses)
         IN  << <<DecimalOf(response.statusCode), response.body>>,
                <<DecimalOf(response.statusCode) \o HeaderSuffix, response.headers>> >>
             \o ResponseComponents(Tail(responses))

\* the runGen calls with those for the responses made first
ComponentsOfResponsesFirst(file) ==
    ResponseComponents(file.responses)
    \o << <<BodySuffix, file.body>>, <<HeaderSuffix, file.headers>>,
          <<QuerySuffix, file.query>>, <<ParamsSuffix, file.params>> >>

\* the runGen calls of one document, in order: <<suffix, data>>
ComponentsOf(file) ==
    << <<BodySuffix, file.body>>, <<HeaderSuffix, file.headers>>,
       <<QuerySuffix, file.query>>, <<ParamsSuffix, file.params>> >>
    \o ResponseComponents(file.responses)

\* runGen(suffix, data)
runGen(file, suffix, data) ==
    IF data.kind = "absent" THEN [zodSegments |-> <<>>, typeExports |-> <<>>, threw |-> FALSE]
    ELSE generateComponentSchema(BaseNameOf(file) \o suffix, data)

\* the awaited runGen calls one after another; a call that rejects ends the
\* iteration (threw)
RECURSIVE Accumulate(_, _, _)
Accumulate(file, comps, acc) ==
    IF comps = <<>> THEN acc
    ELSE With(runGen(file, Head(comps)[1], Head(comps)[2]), LAMBDA res :
         IF res.threw THEN [acc EXCEPT !.threw = TRUE]
         ELSE
         With([allZodSegments |-> acc.allZodSegments \o res.zodSegments,
               allTypeExports |-> acc.allTypeExports \o res.typeExports,
               threw |-> FALSE], LAMBDA pushed :
         With(Tail(comps), LAMBDA rest :
             Accumulate(file, rest, pushed))))

AccumulatedOf(file) ==
    With(ComponentsOf(file), LAMBDA comps :
        Accumulate(file, comps,
                   [allZodSegments |-> <<>>, allTypeExports |-> <<>>, threw |-> FALSE]))

\* the rewrite applied to a marker that is the whole schema only
LazyRefsAtTopOnly(node) ==
    IF node.type = "const" THEN Lazy(node.ref[1]) ELSE node

\* fullContent.replace(/z\.literal\(['"]__REF__(.+?)['"]\)/g, "z.lazy(() => $1)")
RECURSIVE LazyRefs(_)
LazyRefs(node) ==
    IF node.type = "const" THEN Lazy(node.ref[1])
    ELSE [node EXCEPT
            !.items = IF node.items = None THEN None ELSE Some(LazyRefs(node.items[1])),
            !.props = [j \in 1..Len(node.props) |->
                         <<node.props[j][1], LazyRefs(node.props[j][2])>>]]

\* a list left as it is
KeepAll(list) == list

\* the first n elements of list put into a Set one after another
RECURSIVE SetOfFirst(_, _)
SetOfFirst(list, n) ==
    IF n = 0 THEN <<>>
    ELSE With(SetOfFirst(list, n - 1), LAMBDA init :
            IF \E j \in 1..Len(init) : init[j] = list[n] THEN init ELSE Append(init, list[n]))

\* Array.from(new Set(list)): the first occurrence of each value, in order
Dedup(list) == SetOfFirst(list, Len(list))

\* the count taken from the type aliases that are written
SchemasOfAliases(acc) == Len(Dedup(acc.allTypeExports))

\* allZodSegments.length
SchemasOf(acc) == Len(acc.allZodSegments)

\* the directory step that ignores the flag
DirStepAlwaysEmpties(keepFlag) == "emptyDir"

\* if (!keep) emptyDir else ensureDir
DirStep(keepFlag) == IF keepFlag THEN "ensureDir" ELSE "emptyDir"

(***************************************************************************)
(* SpecExtract: extractBlockContent applied to every short text            *)
(***************************************************************************)
ExtractAlphabet == {"body", "json", ":", "{", "}", " "}

BlockNames == { <<"body">>, <<"body", ":", "json">> }

InitExtract ==
    /\ pc = "extract"
    /\ content \in SeqsUpTo(ExtractAlphabet, MaxTextLen)
    /\ blockStartName \in BlockNames
    /\ extracted = None
    /\ kvLines = None /\ kv = None
    /\ doc = None /\ bruFile = None
    /\ jsonSchema = None /\ baseName = None /\ restructured = None
    /\ bruFiles = None /\ keep = None /\ fsLog = None /\ fileIdx = None
    /\ documentedEndpoints = None /\ createdSchemas = None
    /\ inDirExists = None /\ globThrows = None /\ files = None /\ parseIdx = None
    /\ console = None /\ exitCode = None

Extract ==
    /\ pc = "extract"
    /\ extracted' = extractBlockContent(content, blockStartName)
    /\ pc' = "extracted"
    /\ UNCHANGED <<content, blockStartName, kvVars, parseVars, restructureVars, genVars, cliVars>>

NextExtract == Extract

SpecExtract == InitExtract /\ [][NextExtract]_vars

(***************************************************************************)
(* SpecKv: parseKvContent applied to flat blocks of a few lines            *)
(***************************************************************************)
KvLinePalette ==
    { <<"k", ":", " ", "true">>,
      <<"k", ":", "false">>,
      <<"k", ":", " ", "1", "0">>,
      <<"j", ":", " ", "0", "1">>,
      <<"k", ":", " ", "a">>,
      <<"j", ":">>,
      <<" ", "j", " ", ":", " ", "1", " ">>,
      <<"k", ":", " ", "a", ":", "1">>,
      <<"k", ":", " ", "1", " ", "1">>,
      <<"k", ":", " ", "true", "a">>,
      <<"#", " ", "k", ":", " ", "1">>,
      <<" ", "/", "/", "k", ":", "1">>,
      <<"k">>,
      <<" ">>,
      <<>>,
      <<"__proto__", ":", " ", "1">> }

RECURSIVE JoinLines(_)
JoinLines(ls) ==
    IF Len(ls) = 0 THEN <<>>
    ELSE IF Len(ls) = 1 THEN ls[1]
    ELSE ls[1] \o <<"\n">> \o JoinLines(Tail(ls))

InitKv ==
    /\ pc = "parseKv"
    /\ kvLines \in SeqsUpTo(KvLinePalette, MaxKvLines)
    /\ content = JoinLines(kvLines)
    /\ kv = None
    /\ blockStartName = None /\ extracted = None
    /\ doc = None /\ bruFile = None
    /\ jsonSchema = None /\ baseName = None /\ restructured = None
    /\ bruFiles = None /\ keep = None /\ fsLog = None /\ fileIdx = None
    /\ documentedEndpoints = None /\ createdSchemas = None
    /\ inDirExists = None /\ globThrows = None /\ files = None /\ parseIdx = None
    /\ console = None /\ exitCode = None

ParseKv ==
    /\ pc = "parseKv"
    /\ kv' = parseKvContent(content)
    /\ pc' = "kvParsed"
    /\ UNCHANGED <<content, blockStartName, extracted, kvLines, parseVars, restructureVars, genVars, cliVars>>

NextKv == ParseKv

SpecKv == InitKv /\ [][NextKv]_vars

(***************************************************************************)
(* SpecParse: parseBruFile applied to documents written from a few blocks  *)
(***************************************************************************)
LitA == <<"{", " ", "a", " ", "}">>
LitB == <<"{", "a", ",", "b", ",", "}">>
LitBad == <<"{", "a", " ", "b", "}">>
LitOpen == <<"{", "a">>

HdrK == << <<"k", ":", " ", "a">> >>
HdrJ == << <<"j", ":", " ", "1">>, <<"k", ":", "true">> >>

Piece(kind, code, hdr, lit) == [kind |-> kind, code |-> code, hdr |-> hdr, lit |-> lit]

DocPieces ==
    { Piece("example", Some(<<"2", "0", "0">>), Some(HdrK), Some(LitA)),
      Piece("example", Some(<<"2", "0", "0">>), Some(HdrJ), Some(LitB)),
      Piece("example", Some(<<"4", "0", "4">>), None, Some(LitBad)),
      Piece("example", Some(<<"0">>), Some(HdrK), Some(LitA)),
      Piece("example", None, Some(HdrK), Some(LitA)),
      Piece("example", Some(<<"2", "0", "0">>), None, None),
      Piece("openExample", None, None, None),
      Piece("headers", None, Some(HdrJ), None),
      Piece("body:json", None, None, Some(LitA)),
      Piece("body:json", None, None, Some(LitBad)),
      Piece("body:json", None, None, Some(LitOpen)),
      Piece("example", Some(<<"2", "0", "0">>), Some(HdrK), Some(LitOpen)),
      Piece("params:query", None, Some(HdrK), None) }

KvBlockText(name, lines) ==
    name \o <<" ", "{", "\n">> \o JoinLines(lines) \o <<"\n", "}", "\n">>

\* the text of one block of a .bru file
RenderPiece(p) ==
    CASE p.kind = "example" ->
            <<"example", " ", "{", "\n", "response", ":", " ", "{", "\n">>
            \o (IF p.code = None THEN <<>>
                ELSE <<"status", ":", " ", "{", " ", "code", ":", " ">>
                     \o p.code[1] \o <<" ", "}", "\n">>)
            \o (IF p.hdr = None THEN <<>>
                ELSE KvBlockText(<<"headers", ":">>, p.hdr[1]))
            \o (IF p.lit = None THEN <<>>
                ELSE <<"body", ":", " ", "{", "\n", "content", ":", " ", TripleQuote, "\n">>
                     \o p.lit[1] \o <<"\n", TripleQuote, "\n", "}", "\n">>)
            \o <<"}", "\n", "}", "\n">>
      [] p.kind = "openExample" -> <<"example", " ", "{", "\n">>
      [] p.kind = "headers" -> KvBlockText(<<"headers">>, p.hdr[1])
      [] p.kind = "params:query" -> KvBlockText(<<"params", ":", "query">>, p.hdr[1])
      [] p.kind = "body:json" ->
            <<"body", ":", "json", " ", "{", "\n">> \o p.lit[1] \o <<"\n", "}", "\n">>

RECURSIVE RenderDoc(_)
RenderDoc(d) == IF d = <<>> THEN <<>> ELSE RenderPiece(d[1]) \o RenderDoc(Tail(d))

InitParse ==
    /\ pc = "parse"
    /\ doc \in SeqsUpTo(DocPieces, MaxPieces)
    /\ content = RenderDoc(doc)
    /\ bruFile = None
    /\ blockStartName = None /\ extracted = None
    /\ kvLines = None /\ kv = None
    /\ jsonSchema = None /\ baseName = None /\ restructured = None
    /\ bruFiles = None /\ keep = None /\ fsLog = None /\ fileIdx = None
    /\ documentedEndpoints = None /\ createdSchemas = None
    /\ inDirExists = None /\ globThrows = None /\ files = None /\ parseIdx = None
    /\ console = None /\ exitCode = None

Parse ==
    /\ pc = "parse"
    /\ bruFile' = parseBruFile(content)
    /\ pc' = "parsed"
    /\ UNCHANGED <<content, blockStartName, extracted, kvVars, doc, restructureVars, genVars, cliVars>>

NextParse == Parse

SpecParse == InitParse /\ [][NextParse]_vars

(***************************************************************************)
(* SpecRestructure: restructureArrays applied to draft schemas             *)
(***************************************************************************)
\* the definitions the inferencer names itself
DefD == Obj(<< <<<<"y">>, Scalar("string")>> >>)
DefE == Obj(<< <<<<"a">>, Arr(Ref(<<"D">>))>>, <<<<"b">>, Ref(<<"D">>)>> >>)

\* a definition that references itself
DefN == Obj(<< <<<<"b">>, Ref(<<"N">>)>> >>)

InferredDefs == << <<<<"D">>, DefD>>, <<<<"E">>, DefE>>, <<<<"N">>, DefN>> >>

PropKeys == { <<"a">>, <<"A">>, <<"b">>, <<"a", "-", "b">> }

PropValues ==
    { Scalar("string"),
      Arr(Scalar("string")),
      Arr(Obj(<< <<<<"x">>, Scalar("number")>> >>)),
      Arr(Ref(<<"D">>)),
      Obj(<< <<<<"x">>, Scalar("string")>> >>),
      Obj(<< <<<<"b">>, Arr(Ref(<<"D">>))>> >>),
      Ref(<<"D">>),
      Ref(<<"E">>),
      Ref(<<"N">>) }

\* the root objects of up to n properties with distinct keys
RootObjects(n) ==
    { Obj(props) : props \in
        { ps \in SeqsUpTo(PropKeys \X PropValues, n) :
            \A j1, j2 \in 1..Len(ps) : ps[j1][1] = ps[j2][1] => j1 = j2 } }

InitRestructure ==
    /\ pc = "restructure"
    /\ jsonSchema \in { [root |-> r, defs |-> InferredDefs] : r \in RootObjects(MaxProps) }
    /\ baseName = <<"R">>
    /\ restructured = None
    /\ content = None /\ blockStartName = None /\ extracted = None
    /\ kvLines = None /\ kv = None
    /\ doc = None /\ bruFile = None
    /\ bruFiles = None /\ keep = None /\ fsLog = None /\ fileIdx = None
    /\ documentedEndpoints = None /\ createdSchemas = None
    /\ inDirExists = None /\ globThrows = None /\ files = None /\ parseIdx = None
    /\ console = None /\ exitCode = None

Restructure ==
    /\ pc = "restructure"
    /\ restructured' = restructureArrays(jsonSchema.root, jsonSchema.defs, baseName, MaxDepth)
    /\ pc' = "restructured"
    /\ UNCHANGED <<extractVars, kvVars, parseVars, jsonSchema, baseName, genVars, cliVars>>

NextRestructure == Restructure

SpecRestructure == InitRestructure /\ [][NextRestructure]_vars

(***************************************************************************)
(* SpecGen: one run of generateSchemas                                      *)
(***************************************************************************)
Get == <<"g", "e", "t">>
UrlA == <<"/", "a">>
UrlB == <<"{", "{", "h", "}", "}", "/", "b", "/", ":", "i">>
UrlC == <<"h", "t", "t", "p", ":", "/", "/", "x", "/", "a", "?", "q">>
UrlRoot == <<"{", "{", "h", "}", "}", "/">>
Post == <<"p", "o", "s", "t">>
Login == <<"L", "o", "g", "i", "n">>

FlatObject == Payload(Obj(<< <<<<"i", "d">>, Scalar("number")>> >>), <<>>)

PostShape ==
    Obj(<< <<<<"i", "d">>, Scalar("number")>>, <<<<"t", "i", "t", "l", "e">>, Scalar("string")>> >>)

\* { "posts": [ { "id": 1, "title": "Hi" } ] } with the element shape inline
PostsInline == Payload(Obj(<< <<<<"p", "o", "s", "t", "s">>, Arr(PostShape)>> >>), <<>>)

\* the same sample behind a root reference, the element shape a definition
PostsByRef ==
    Payload(Ref(<<"T", "o", "p">>),
            << <<<<"T", "o", "p">>,
                 Obj(<< <<<<"p", "o", "s", "t", "s">>, Arr(Ref(<<"P", "o", "s", "t">>))>> >>)>>,
               <<<<"P", "o", "s", "t">>, PostShape>> >>)

\* { "header": { "x": "s" } }
HeaderObject ==
    Payload(Obj(<< <<<<"h", "e", "a", "d", "e", "r">>,
                     Obj(<< <<<<"x">>, Scalar("string")>> >>)>> >>), <<>>)

\* { "a": { "b": { "x": "s" } } }
NestedObject ==
    Payload(Obj(<< <<<<"a">>, Obj(<< <<<<"b">>,
                     Obj(<< <<<<"x">>, Scalar("string")>> >>)>> >>)>> >>), <<>>)

\* { "p": { "b": { "b": null } } } inferred as a class that references itself
Recursive ==
    Payload(Obj(<< <<<<"p">>, Ref(<<"N">>)>> >>), << <<<<"N">>, DefN>> >>)

\* { "b": { "b": null } }: the root class itself is the one that recurs
RecursiveRoot == Payload(Ref(<<"N">>), << <<<<"N">>, DefN>> >>)

\* a BruFile as parseBruFile returns it (its path plays no part in generation)
BruFileNamed(name, method, url, body, headers, query, params, responses) ==
    [name |-> name, method |-> method, url |-> url, body |-> body, headers |-> headers,
     query |-> query, params |-> params, responses |-> responses]

BruFileOf(url, body, headers, query, params, responses) ==
    BruFileNamed(Login, Get, url, body, headers, query, params, responses)

ResponseOf(statusCode, body, headers) ==
    [statusCode |-> statusCode, body |-> body, headers |-> headers]

FilePalette ==
    { BruFileOf(UrlA, Absent, Absent, Absent, Absent, <<>>),
      BruFileOf(UrlB, EmptyData, EmptyData, Absent, EmptyData,
                <<ResponseOf(204, Absent, EmptyData)>>),
      BruFileOf(UrlA, PostsInline, Absent, Absent, Absent, <<>>),
      BruFileOf(UrlB, PostsByRef, Absent, Absent, Absent, <<>>),
      BruFileOf(UrlC, Absent, FlatObject, FlatObject, FlatObject, <<>>),
      BruFileOf(UrlA, Absent, Absent, Absent, Absent,
                <<ResponseOf(200, HeaderObject, FlatObject)>>),
      BruFileOf(UrlB, FlatObject, Absent, Absent, Absent,
                <<ResponseOf(200, FlatObject, Absent), ResponseOf(404, FlatObject, FlatObject)>>),
      BruFileOf(UrlC, FlatObject, Absent, Absent, Absent,
                <<ResponseOf(200, Recursive, Absent)>>),
      BruFileOf(UrlB, RecursiveRoot, Absent, Absent, Absent, <<>>),
      BruFileNamed(Login, Post, UrlRoot, Absent, FlatObject, Absent, Absent,
                   <<ResponseOf(200, FlatObject, Absent)>>),
      BruFileNamed(Login, Post, UrlC, NestedObject, Absent, Absent, Absent, <<>>) }

FsCall(op, path, zodSegments, typeExports, file) ==
    [op |-> op, path |-> path, zodSegments |-> zodSegments,
     typeExports |-> typeExports, file |-> file]

\* the command line passes no keep argument (keep = FALSE); a direct caller
\* passes either value
InitGen ==
    /\ pc = "generateSchemas"
    /\ bruFiles \in SeqsUpTo(FilePalette, MaxFiles)
    /\ keep \in BOOLEAN
    /\ fsLog = <<>>
    /\ fileIdx = 1
    /\ documentedEndpoints = 0
    /\ createdSchemas = 0
    /\ content = None /\ blockStartName = None /\ extracted = None
    /\ kvLines = None /\ kv = None
    /\ doc = None /\ bruFile = None
    /\ jsonSchema = None /\ baseName = None /\ restructured = None
    /\ inDirExists = None /\ globThrows = None /\ files = None /\ parseIdx = None
    /\ console = None /\ exitCode = None

PrepareDir ==
    /\ pc = "generateSchemas"
    /\ fsLog' = Append(fsLog, FsCall(DirStep(keep), <<>>, <<>>, <<>>, 0))
    /\ pc' = "files"
    /\ UNCHANGED <<extractVars, kvVars, parseVars, restructureVars, cliVars,
                   bruFiles, keep, fileIdx, documentedEndpoints, createdSchemas>>

\* an iteration that ends at `continue`
SkipFile ==
    /\ pc = "files"
    /\ fileIdx <= Len(bruFiles)
    /\ \E acc \in {AccumulatedOf(bruFiles[fileIdx])} :
            ~acc.threw /\ acc.allZodSegments = <<>>
    /\ fileIdx' = fileIdx + 1
    /\ UNCHANGED <<pc, extractVars, kvVars, parseVars, restructureVars, cliVars,
                   bruFiles, keep, fsLog, documentedEndpoints, createdSchemas>>

\* an iteration that counts the document, assembles its content and writes it
WriteFile ==
    /\ pc = "files"
    /\ fileIdx <= Len(bruFiles)
    /\ \E file \in {bruFiles[fileIdx]} : \E acc \in {AccumulatedOf(file)} :
       LET segments == [j \in 1..Len(acc.allZodSegments) |->
                          ZodSegment(acc.allZodSegments[j].name,
                                     LazyRefs(acc.allZodSegments[j].schema))]
           uniqueTypeExports == Dedup(acc.allTypeExports)
       IN  /\ ~acc.threw
           /\ acc.allZodSegments # <<>>
           /\ documentedEndpoints' = documentedEndpoints + 1
           /\ createdSchemas' = createdSchemas + SchemasOf(acc)
           /\ fsLog' = Append(fsLog, FsCall("writeFile", FileNameOf(file), segments,
                                            uniqueTypeExports, fileIdx))
    /\ fileIdx' = fileIdx + 1
    /\ UNCHANGED <<pc, extractVars, kvVars, parseVars, restructureVars, cliVars, bruFiles, keep>>

Return ==
    /\ pc = "files"
    /\ fileIdx > Len(bruFiles)
    /\ pc' = "returned"
    /\ UNCHANGED <<extractVars, kvVars, parseVars, restructureVars, genVars, cliVars>>

\* an iteration in which an awaited call rejects: generateSchemas rejects
Throw ==
    /\ pc = "files"
    /\ fileIdx <= Len(bruFiles)
    /\ \E acc \in {AccumulatedOf(bruFiles[fileIdx])} : acc.threw
    /\ pc' = "thrown"
    /\ UNCHANGED <<extractVars, kvVars, parseVars, restructureVars, genVars, cliVars>>

NextGen == PrepareDir \/ SkipFile \/ WriteFile \/ Throw \/ Return

SpecGen == InitGen /\ [][NextGen]_vars

(***************************************************************************)
(* SpecCli: the action of the command line.  Its parsedFiles is bruFiles,  *)
(* the argument generateSchemas is then called with.                       *)
(***************************************************************************)
DocNothing == BruFileOf(UrlA, Absent, Absent, Absent, Absent, <<>>)
DocPosts == BruFileOf(UrlA, PostsInline, Absent, Absent, Absent, <<>>)
DocKv == BruFileOf(UrlC, Absent, FlatObject, FlatObject, FlatObject, <<>>)
DocRecursive ==
    BruFileOf(UrlC, FlatObject, Absent, Absent, Absent, <<ResponseOf(200, Recursive, Absent)>>)

\* fs.readFile rejects: parseBruFile throws
ReadFails == [throws |-> TRUE, file |-> DocNothing]

\* parseBruFile returns file
ReadGives(file) == [throws |-> FALSE, file |-> file]

FileInputs == {ReadFails} \cup {ReadGives(f) : f \in {DocNothing, DocPosts, DocKv, DocRecursive}}

Logged(text, documented, created) ==
    [text |-> text, documented |-> documented, created |-> created]

\* a loop that is left as soon as one file has been handled
ParsingDoneAfterFirst(idx, n) == idx > 1

\* for (const file of files) has run out
ParsingDone(idx, n) == idx > n

\* a catch that gives up on the files still to come
AfterParseErrorAbandons(idx, n) == n + 1

\* the catch inside the loop: on to the next file
AfterParseError(idx, n) == idx + 1

\* an outer catch that ends like a run without failure
CaughtStatusAlwaysZero(thrown) == 0

\* process.exit(1) in the outer catch, the natural end otherwise
CaughtStatus(thrown) == IF thrown THEN 1 ELSE 0

\* a test that never sees an empty file list
NoFilesFoundNever(n) == FALSE

\* files.length === 0
NoFilesFound(n) == n = 0

InitCli ==
    /\ pc = "action"
    /\ inDirExists \in BOOLEAN
    /\ globThrows \in BOOLEAN
    /\ files \in SeqsUpTo(FileInputs, MaxFiles)
    /\ parseIdx = 1
    /\ console = <<>>
    /\ exitCode = None
    /\ bruFiles = <<>>
    /\ keep = FALSE
    /\ fsLog = <<>>
    /\ fileIdx = 1
    /\ documentedEndpoints = 0
    /\ createdSchemas = 0
    /\ content = None /\ blockStartName = None /\ extracted = None
    /\ kvLines = None /\ kv = None
    /\ doc = None /\ bruFile = None
    /\ jsonSchema = None /\ baseName = None /\ restructured = None

InputMissing ==
    /\ pc = "action"
    /\ ~inDirExists
    /\ console' = Append(console, Logged("Input directory does not exist", 0, 0))
    /\ exitCode' = Some(1)
    /\ pc' = "exited"
    /\ UNCHANGED <<extractVars, kvVars, parseVars, restructureVars, genVars,
                   inDirExists, globThrows, files, parseIdx>>

\* the glob resolves and files.length === 0
NoFiles ==
    /\ pc = "action"
    /\ inDirExists
    /\ ~globThrows
    /\ NoFilesFound(Len(files))
    /\ console' = Append(console, Logged("No .bru files found.", 0, 0))
    /\ exitCode' = Some(0)
    /\ pc' = "exited"
    /\ UNCHANGED <<extractVars, kvVars, parseVars, restructureVars, genVars,
                   inDirExists, globThrows, files, parseIdx>>

\* await glob(pattern) rejects: the outer catch logs and exits
GlobFails ==
    /\ pc = "action"
    /\ inDirExists
    /\ globThrows
    /\ console' = Append(console, Logged("Error finding files", 0, 0))
    /\ exitCode' = Some(CaughtStatus(TRUE))
    /\ pc' = "exited"
    /\ UNCHANGED <<extractVars, kvVars, parseVars, restructureVars, genVars,
                   inDirExists, globThrows, files, parseIdx>>

Glob ==
    /\ pc = "action"
    /\ inDirExists
    /\ ~globThrows
    /\ ~NoFilesFound(Len(files))
    /\ pc' = "parsing"
    /\ UNCHANGED <<extractVars, kvVars, parseVars, restructureVars, genVars, cliVars>>

\* an iteration in which parseBruFile returns: parsedFiles.push(parsed)
ParseFile ==
    /\ pc = "parsing"
    /\ ~ParsingDone(parseIdx, Len(files))
    /\ ~files[parseIdx].throws
    /\ bruFiles' = Append(bruFiles, files[parseIdx].file)
    /\ parseIdx' = parseIdx + 1
    /\ UNCHANGED <<pc, extractVars, kvVars, parseVars, restructureVars,
                   keep, fsLog, fileIdx, documentedEndpoints, createdSchemas,
                   inDirExists, globThrows, files, console, exitCode>>

\* an iteration in which parseBruFile throws: the catch logs it
ParseFails ==
    /\ pc = "parsing"
    /\ ~ParsingDone(parseIdx, Len(files))
    /\ files[parseIdx].throws
    /\ console' = Append(console, Logged("Error parsing", 0, 0))
    /\ parseIdx' = AfterParseError(parseIdx, Len(files))
    /\ UNCHANGED <<pc, extractVars, kvVars, parseVars, restructureVars, genVars,
                   inDirExists, globThrows, files, exitCode>>

\* generateSchemas(parsedFiles, outDir)
CallGenerate ==
    /\ pc = "parsing"
    /\ ParsingDone(parseIdx, Len(files))
    /\ pc' = "generateSchemas"
    /\ UNCHANGED <<extractVars, kvVars, parseVars, restructureVars, genVars, cliVars>>

\* console.log(`Documented ${...} endpoints and created ${...} schemas.`)
Report ==
    /\ pc = "returned"
    /\ console' = Append(console, Logged("Documented", documentedEndpoints, createdSchemas))
    /\ exitCode' = Some(CaughtStatus(FALSE))
    /\ pc' = "exited"
    /\ UNCHANGED <<extractVars, kvVars, parseVars, restructureVars, genVars,
                   inDirExists, globThrows, files, parseIdx>>

\* the outer catch: console.error('Error finding files:', err); process.exit(1)
Fail ==
    /\ pc = "thrown"
    /\ console' = Append(console, Logged("Error finding files", 0, 0))
    /\ exitCode' = Some(CaughtStatus(TRUE))
    /\ pc' = "exited"
    /\ UNCHANGED <<extractVars, kvVars, parseVars, restructureVars, genVars,
                   inDirExists, globThrows, files, parseIdx>>

NextCli ==
    \/ InputMissing \/ NoFiles \/ GlobFails \/ Glob \/ ParseFile \/ ParseFails \/ CallGenerate
    \/ PrepareDir \/ SkipFile \/ WriteFile \/ Throw \/ Return
    \/ Report \/ Fail

SpecCli == InitCli /\ [][NextCli]_vars

(***************************************************************************)
(* C6: extractBlockContent returns exactly the symbols strictly between    *)
(* the opening brace of the first matching block header and the closing    *)
(* brace at which the brace depth first returns to zero, and null when the *)
(* header does not occur or the depth never returns to zero.               *)
(***************************************************************************)
\* name, then whitespace with at most one ":" in it, then "{" at position b
HeaderAt(s, name, i, b) ==
    /\ i + Len(name) - 1 <= Len(s)
    /\ SubSeq(s, i, i + Len(name) - 1) = name
    /\ b \in (i + Len(name))..Len(s)
    /\ s[b] = "{"
    /\ \A k \in (i + Len(name))..(b - 1) : IsWs(s[k]) \/ s[k] = ":"
    /\ Cardinality({k \in (i + Len(name))..(b - 1) : s[k] = ":"}) <= 1

BraceDepth(s, o, j) ==
    Cardinality({k \in o..j : s[k] = "{"}) - Cardinality({k \in o..j : s[k] = "}"})

ExpectedBlock(s, name) ==
    LET heads == {i \in 1..Len(s) : \E b \in 1..Len(s) : HeaderAt(s, name, i, b)}
    IN  IF heads = {} THEN None
        ELSE LET i == Min(heads)
                 o == CHOOSE b \in 1..Len(s) : HeaderAt(s, name, i, b)
                 closers == {c \in (o + 1)..Len(s) : BraceDepth(s, o, c) = 0}
             IN  IF closers = {} THEN None
                 ELSE Some(SubSeq(s, o + 1, Min(closers) - 1))

C6_ExtractExact ==
    pc = "extracted" => extracted = ExpectedBlock(content, blockStartName)

\* a block with braces nested inside was extracted whole
C6_Witness ==
    /\ pc = "extracted"
    /\ extracted # None
    /\ \E k \in 1..Len(extracted[1]) : extracted[1][k] = "{"

(***************************************************************************)
(* C7 as stated: every non-blank, non-comment line key: value of a flat    *)
(* block has its trimmed key mapped to true/false when the trimmed value   *)
(* is exactly true/false, to a number when it is non-empty and numeric,    *)
(* and to the trimmed value string otherwise; and the result is absent     *)
(* when no line yields an entry.                                           *)
(***************************************************************************)
KvUsable(line) ==
    LET t == Trim(line)
    IN  /\ t # <<>>
        /\ ~StartsWith(t, <<"#">>)
        /\ ~StartsWith(t, <<"/", "/">>)
        /\ \E k \in 1..Len(t) : t[k] = ":"

KvColon(line) == Min({k \in 1..Len(Trim(line)) : Trim(line)[k] = ":"})

KvKeyOf(line) == Trim(SubSeq(Trim(line), 1, KvColon(line) - 1))

KvValueOf(line) == Trim(SubSeq(Trim(line), KvColon(line) + 1, Len(Trim(line))))

KvExpected(v) ==
    CASE v = <<"true">> -> KvBool(TRUE)
      [] v = <<"false">> -> KvBool(FALSE)
      [] v \notin {<<"true">>, <<"false">>} /\ v # <<>>
           /\ (\A k \in 1..Len(v) : v[k] \in Digits) -> KvNum(NumberOf(v))
      [] OTHER -> KvStr(v)

KvLookup(m, key) ==
    IF \E j \in 1..Len(m) : m[j][1] = key
    THEN Some(m[CHOOSE j \in 1..Len(m) : m[j][1] = key][2])
    ELSE None

KvEntryLines == {i \in 1..Len(kvLines) :
                    KvUsable(kvLines[i]) /\ KvKeyOf(kvLines[i]) # <<"__proto__">>}

C7_EveryLineMapped ==
    pc = "kvParsed" =>
        /\ (KvEntryLines = {}) <=> (kv = None)
        /\ \A i \in KvEntryLines :
              /\ kv # None
              /\ KvLookup(kv[1], KvKeyOf(kvLines[i])) = Some(KvExpected(KvValueOf(kvLines[i])))

(***************************************************************************)
(* C7 amended: each key carried by a non-blank, non-comment line (other    *)
(* than __proto__) is mapped once, to the typed value (boolean, number,    *)
(* trimmed string) of the LAST such line carrying it; the result is absent *)
(* exactly when no line yields an entry.                                   *)
(***************************************************************************)
C7_LastLineWins ==
    pc = "kvParsed" =>
        /\ (KvEntryLines = {}) <=> (kv = None)
        /\ kv # None =>
              /\ {kv[1][j][1] : j \in 1..Len(kv[1])} = {KvKeyOf(kvLines[i]) : i \in KvEntryLines}
              /\ \A j1, j2 \in 1..Len(kv[1]) : kv[1][j1][1] = kv[1][j2][1] => j1 = j2
        /\ \A i \in KvEntryLines :
              (\A i2 \in KvEntryLines :
                   KvKeyOf(kvLines[i2]) = KvKeyOf(kvLines[i]) => i2 <= i)
              => KvLookup(kv[1], KvKeyOf(kvLines[i])) = Some(KvExpected(KvValueOf(kvLines[i])))

\* two lines carry the same key with different values, and the block was parsed
C7_Witness ==
    /\ pc = "kvParsed"
    /\ kv # None
    /\ \E i1, i2 \in KvEntryLines :
          /\ i1 < i2
          /\ KvKeyOf(kvLines[i1]) = KvKeyOf(kvLines[i2])
          /\ KvExpected(KvValueOf(kvLines[i1])).type = "boolean"
          /\ KvExpected(KvValueOf(kvLines[i2])).type = "number"

(***************************************************************************)
(* C1: a document that contains an example block with a nested headers     *)
(* block, and no headers block outside every example, is parsed to a       *)
(* record whose document-level headers are absent.                         *)
(***************************************************************************)
C1_ExampleHeadersNotTopLevel ==
    ( /\ pc = "parsed"
      /\ \E i \in 1..Len(doc) : doc[i].kind = "example" /\ doc[i].hdr # None
      /\ \A i \in 1..Len(doc) : doc[i].kind # "headers" )
    => bruFile.headers = None

(***************************************************************************)
(* C2: the status codes of the recorded example responses are positive     *)
(* and pairwise distinct, and the body and headers recorded for a code are *)
(* those of the first example block, in document order, carrying it.       *)
(***************************************************************************)
ResponsesOf(f) == IF f.responses = None THEN <<>> ELSE f.responses[1]

\* the braces of a literal pair up
RECURSIVE DepthAfter(_, _)
DepthAfter(lit, n) ==
    IF n = 0 THEN 0
    ELSE DepthAfter(lit, n - 1)
         + (IF lit[n] = "{" THEN 1 ELSE IF lit[n] = "}" THEN -1 ELSE 0)

Balanced(lit) ==
    /\ DepthAfter(lit, Len(lit)) = 0
    /\ \A n \in 0..Len(lit) : DepthAfter(lit, n) >= 0

\* the status code an example block carries; a piece whose braces never
\* balance is no block
PieceCode(p) ==
    IF p.kind = "example" /\ p.code # None /\ (p.lit # None => Balanced(p.lit[1]))
    THEN NumberOf(p.code[1]) ELSE 0

ExpectedResponse(p) ==
    [statusCode |-> PieceCode(p),
     body |-> IF p.lit = None THEN None ELSE JSON5Parse(p.lit[1]),
     headers |-> IF p.hdr = None THEN None ELSE parseKvContent(JoinLines(p.hdr[1]))]

DraftDef(defs, n) ==
    IF \E j \in 1..Len(defs) : defs[j][1] = n
    THEN Some(defs[CHOOSE j \in 1..Len(defs) : defs[j][1] = n][2])
    ELSE None

DraftResolve(node, defs) ==
    IF node.ref # None /\ DraftDef(defs, node.ref[1]) # None
    THEN DraftDef(defs, node.ref[1])[1]
    ELSE node

ShapeOf(obj, defs) ==
    [j \in 1..Len(obj.props) |->
        <<obj.props[j][1], DraftResolve(obj.props[j][2], defs).type>>]

RECURSIVE AccessPaths(_, _, _, _)
AccessPaths(obj, name, defs, fuel) ==
    IF fuel = 0 THEN {}
    ELSE UNION {
        LET key == obj.props[j][1]
            v == obj.props[j][2]
            childName == name \o toPascalCase(key)
        IN  IF v.type = "array" THEN
                LET elem == DraftResolve(v.items[1], defs)
                    itemName == childName \o ItemSuffix
                IN  IF elem.type = "object"
                    THEN {[kind |-> "array", parent |-> name, key |-> key,
                           name |-> itemName, shape |-> ShapeOf(elem, defs)]}
                         \cup AccessPaths(elem, itemName, defs, fuel - 1)
                    ELSE {}
            ELSE IF v.type = "object" THEN
                {[kind |-> "object", parent |-> name, key |-> key,
                  name |-> childName, shape |-> ShapeOf(v, defs)]}
                \cup AccessPaths(v, childName, defs, fuel - 1)
            ELSE IF v.ref # None /\ DraftResolve(v, defs).type = "object" THEN
                AccessPaths(DraftResolve(v, defs), childName, defs, fuel - 1)
            ELSE {}
        : j \in 1..Len(obj.props) }

InputPaths == AccessPaths(jsonSchema.root, baseName, jsonSchema.defs, MaxDepth)

OutDefs == [j \in 1..Len(restructured.defs) |->
               <<restructured.defs[j].name, restructured.defs[j].node>>]

\* the object the access path's last property sits in, after restructuring
OutParent(e) ==
    IF e.parent = baseName THEN Some(restructured.root) ELSE DraftDef(OutDefs, e.parent)

OutProp(e) ==
    LET par == OutParent(e)
    IN  IF par = None \/ ~(\E j \in 1..Len(par[1].props) : par[1].props[j][1] = e.key)
        THEN None
        ELSE Some(par[1].props[PropIndex(par[1], e.key)][2])

HoldsShape(e) ==
    /\ DraftDef(OutDefs, e.name) # None
    /\ DraftDef(OutDefs, e.name)[1].type = "object"
    /\ ShapeOf(DraftDef(OutDefs, e.name)[1], OutDefs) = e.shape

(***************************************************************************)
(* C3: for every array-of-objects property at access path P, restructuring *)
(* with root name R leaves a definition named R + title-cased segments of  *)
(* P + Item that holds the element shape, and the array property           *)
(* references that item definition, directly or through an array           *)
(* definition, instead of inlining the element shape.                      *)
(***************************************************************************)
ReferencesItem(e) ==
    LET pr == OutProp(e)
        arrayName == SubSeq(e.name, 1, Len(e.name) - Len(ItemSuffix))
    IN  /\ pr # None
        /\ \/ pr[1] = Arr(Ref(e.name))
           \/ /\ pr[1] = Ref(arrayName)
              /\ DraftDef(OutDefs, arrayName) = Some(Arr(Ref(e.name)))

C3_ArrayItemsNamedByPath ==
    pc = "restructured" /\ ~restructured.overflow =>
        \A e \in InputPaths : e.kind = "array" => HoldsShape(e) /\ ReferencesItem(e)

(***************************************************************************)
(* C5: every inline object property with key k met in a node named N is    *)
(* lifted into the definitions under N + PascalCase(k), the property       *)
(* becomes a reference to that name, and the lifted definition is          *)
(* restructured under that name, so that an object nested at depth d is    *)
(* named by the root name and the d title-cased keys of its access path.   *)
(***************************************************************************)
C5_InlineObjectsLifted ==
    pc = "restructured" /\ ~restructured.overflow =>
        \A e \in InputPaths :
            e.kind = "object" => HoldsShape(e) /\ OutProp(e) = Some(Ref(e.name))

(***************************************************************************)
(* The output units of a run: the writeFile calls of fsLog                 *)
(***************************************************************************)
Written == {i \in 1..Len(fsLog) : fsLog[i].op = "writeFile"}

\* a document whose only component is a body
OnlyBody(file) ==
    /\ file.body.kind = "payload"
    /\ file.headers.kind = "absent" /\ file.query.kind = "absent"
    /\ file.params.kind = "absent" /\ file.responses = <<>>

\* a sample that is an object with one property, an array of flat objects
SingleArrayOfObjects(data) ==
    LET schema == UnwrapRoot([root |-> data.root, defs |-> data.defs])
        props == schema.root.props
    IN  /\ schema.root.type = "object"
        /\ Len(props) = 1
        /\ props[1][2].type = "array"
        /\ LET elem == DraftResolve(props[1][2].items[1], schema.defs)
           IN  /\ elem.type = "object"
               /\ \A j \in 1..Len(elem.props) : elem.props[j][2].type \in {"number", "string"}

(***************************************************************************)
(* C4: an array-typed property at access path P gets a separate array      *)
(* schema declaration named after P, without the Item suffix, whose items  *)
(* lazily reference the item schema, and the parent's property lazily      *)
(* references that array schema; a payload with one array-of-objects       *)
(* property yields exactly three declarations (item, array, root) and      *)
(* three type aliases.                                                     *)
(***************************************************************************)
C4_ArrayDeclarationLayer ==
    \A i \in Written :
        LET file == bruFiles[fsLog[i].file]
            unit == fsLog[i]
        IN  OnlyBody(file) /\ SingleArrayOfObjects(file.body) =>
            LET root == BaseNameOf(file) \o BodySuffix
                key == UnwrapRoot([root |-> file.body.root, defs |-> file.body.defs]).root.props[1][1]
                arrayName == root \o toPascalCase(key)
                itemName == arrayName \o ItemSuffix
                schemaOf(n) == toCamelCase(n) \o SchemaSuffix
                named(n) == {j \in 1..Len(unit.zodSegments) : unit.zodSegments[j].name = schemaOf(n)}
            IN  /\ Len(unit.zodSegments) = 3
                /\ Len(unit.typeExports) = 3
                /\ named(itemName) # {} /\ named(arrayName) # {} /\ named(root) # {}
                /\ \A j \in named(arrayName) :
                        unit.zodSegments[j].schema = Arr(Lazy(schemaOf(itemName)))
                /\ \A j \in named(root) :
                        unit.zodSegments[j].schema = Obj(<< <<key, Lazy(schemaOf(arrayName))>> >>)

(***************************************************************************)
(* C8: in every written unit no type alias occurs twice: of the aliases    *)
(* the component generations of the document produce, each distinct one    *)
(* is there exactly once, and they stand in the order of their first       *)
(* occurrences.                                                            *)
(***************************************************************************)
FirstAt(list, x) == Min({j \in 1..Len(list) : list[j] = x})

C8_TypeExportsUnique ==
    \A i \in Written :
        LET all == AccumulatedOf(bruFiles[fsLog[i].file]).allTypeExports
            out == fsLog[i].typeExports
        IN  /\ \A j1, j2 \in 1..Len(out) : out[j1] = out[j2] => j1 = j2
            /\ {out[j] : j \in 1..Len(out)} = {all[j] : j \in 1..Len(all)}
            /\ \A j1, j2 \in 1..Len(out) :
                    j1 < j2 => FirstAt(all, out[j1]) < FirstAt(all, out[j2])

\* a unit was written whose component generations repeated an alias
C8_Witness ==
    \E i \in Written :
        Len(AccumulatedOf(bruFiles[fsLog[i].file]).allTypeExports) > Len(fsLog[i].typeExports)

(***************************************************************************)
(* C9: a document whose payload, headers, query parameters, path           *)
(* parameters and example responses are all absent or empty yields no      *)
(* schema fragment: its iteration writes nothing and leaves                *)
(* documentedEndpoints and createdSchemas as they are.                     *)
(***************************************************************************)
NothingIn(data) == data.kind \in {"absent", "empty"}

AllAbsentOrEmpty(file) ==
    /\ NothingIn(file.body) /\ NothingIn(file.headers)
    /\ NothingIn(file.query) /\ NothingIn(file.params)
    /\ \A r \in 1..Len(file.responses) :
            NothingIn(file.responses[r].body) /\ NothingIn(file.responses[r].headers)

C9_EmptyDocumentSkipped ==
    [][ (pc = "files" /\ fileIdx <= Len(bruFiles) /\ AllAbsentOrEmpty(bruFiles[fileIdx]))
        => /\ fsLog' = fsLog
           /\ documentedEndpoints' = documentedEndpoints
           /\ createdSchemas' = createdSchemas
           /\ fileIdx' = fileIdx + 1 ]_vars

\* the run is past a document with empty objects only, after a documented one
C9_Witness ==
    /\ pc = "returned"
    /\ Len(bruFiles) = 2
    /\ AllAbsentOrEmpty(bruFiles[2])
    /\ bruFiles[2].body.kind = "empty"
    /\ documentedEndpoints = 1
    /\ Written = {2}

(***************************************************************************)
(* C10: in every run of generateSchemas exactly one directory step         *)
(* happens, before any file is written: ensureDir and never emptyDir when  *)
(* keep is set, emptyDir once and never ensureDir when it is not.          *)
(***************************************************************************)
C10_OneDirectoryStepFirst ==
    pc \in {"generateSchemas", "files", "returned", "thrown"} =>
        /\ pc = "generateSchemas" => fsLog = <<>>
        /\ pc # "generateSchemas" =>
            /\ Len(fsLog) >= 1
            /\ fsLog[1].op = (IF keep THEN "ensureDir" ELSE "emptyDir")
            /\ \A i \in 2..Len(fsLog) : fsLog[i].op = "writeFile"

\* a run with keep set that has returned after writing a file
C10_Witness ==
    /\ pc = "returned"
    /\ keep = TRUE
    /\ Written # {}

(***************************************************************************)
(* C11: after a run there is one written file per documented endpoint:     *)
(* the number of distinct paths written equals documentedEndpoints, no two *)
(* documents counted in the run are written to the same path.              *)
(***************************************************************************)
WrittenPaths == {fsLog[i].path : i \in Written}

C11_OneArtifactPerEndpoint ==
    pc = "returned" => Cardinality(WrittenPaths) = documentedEndpoints

(***************************************************************************)
(* The documents of a command-line run: files[k] is document k.            *)
(***************************************************************************)
\* the documents among the first n files whose parse returned, in order
RECURSIVE ParsedAmong(_, _)
ParsedAmong(fs, n) ==
    IF n = 0 THEN <<>>
    ELSE IF fs[n].throws THEN ParsedAmong(fs, n - 1)
    ELSE Append(ParsedAmong(fs, n - 1), fs[n].file)

\* the position document k has in parsedFiles
PositionOf(k) == Len(ParsedAmong(files, k))

\* the parse step of document k has begun (and, being one step, ended)
ParseBegun(k) == parseIdx > k

\* document k is through: its parse threw, or the loop of generateSchemas is past it
Through(k) == files[k].throws \/ fileIdx > PositionOf(k)

InCli == pc \in {"action", "parsing", "generateSchemas", "files", "returned", "thrown", "exited"}

(***************************************************************************)
(* C12: documents are processed one after another and each one fully: for  *)
(* documents d1 before d2, the parse, synthesis, assembly and persist      *)
(* steps of d1 are complete before the parse step of d2 begins.            *)
(***************************************************************************)
C12_EachDocumentFullyBeforeNext ==
    InCli =>
        \A d1, d2 \in 1..Len(files) :
            d1 < d2 /\ ParseBegun(d2) => Through(d1)

(***************************************************************************)
(* C12 as the program has it: all documents are parsed first, in input     *)
(* order; no document is synthesized or persisted before the last parse;   *)
(* then the parsed documents are synthesized, assembled and persisted in   *)
(* that order, each one fully before the next one's synthesis begins.      *)
(***************************************************************************)
C12_ParseAllThenGenerateInOrder ==
    InCli =>
        /\ bruFiles = ParsedAmong(files, IF parseIdx > Len(files) THEN Len(files) ELSE parseIdx - 1)
        /\ pc \in {"action", "parsing"} => fsLog = <<>> /\ fileIdx = 1
        /\ pc \in {"generateSchemas", "files", "returned", "thrown"} => parseIdx > Len(files)
        /\ \A i \in Written : fsLog[i].file < fileIdx
        /\ \A i, j \in Written : i < j => fsLog[i].file < fsLog[j].file

\* two documents are parsed, the first is persisted, the second not yet synthesized
C12_Witness ==
    /\ pc = "files"
    /\ parseIdx = 3
    /\ Len(bruFiles) = 2
    /\ fileIdx = 2
    /\ Written # {}

(***************************************************************************)
(* What a run of generateSchemas over docs comes to after its first n      *)
(* documents: the paths written in order, the two counters, and whether    *)
(* the run was aborted.                                                    *)
(***************************************************************************)
RECURSIVE OutcomeOf(_, _)
OutcomeOf(docs, n) ==
    IF n = 0 THEN [paths |-> <<>>, documented |-> 0, created |-> 0, threw |-> FALSE]
    ELSE With(OutcomeOf(docs, n - 1), LAMBDA o :
            IF o.threw THEN o
            ELSE With(AccumulatedOf(docs[n]), LAMBDA acc :
                    IF acc.threw THEN [o EXCEPT !.threw = TRUE]
                    ELSE IF acc.allZodSegments = <<>> THEN o
                    ELSE [paths |-> Append(o.paths, FileNameOf(docs[n])),
                          documented |-> o.documented + 1,
                          created |-> o.created + Len(acc.allZodSegments),
                          threw |-> FALSE]))

\* the paths of the writeFile calls so far, in order
PathsWritten == [k \in 1..(Len(fsLog) - 1) |-> fsLog[k + 1].path]

(***************************************************************************)
(* C13: a document whose parse raises is caught for that document only: it *)
(* contributes no fragment, file or count, and the other documents are     *)
(* parsed, synthesized and persisted as if it had not been in the input.   *)
(***************************************************************************)
C13_ParseFailureIsLocal ==
    (InCli /\ pc # "action") =>
        /\ bruFiles = ParsedAmong(files, parseIdx - 1)
        /\ pc \in {"returned", "thrown"} =>
            LET others == ParsedAmong(files, Len(files))
                o == OutcomeOf(others, Len(others))
            IN  /\ PathsWritten = o.paths
                /\ documentedEndpoints = o.documented
                /\ createdSchemas = o.created
                /\ (pc = "thrown") = o.threw

\* a run whose first document failed to parse has written the second and ended well
C13_Witness ==
    /\ pc = "exited"
    /\ Len(files) = 2
    /\ files[1].throws
    /\ ~files[2].throws
    /\ Written # {}
    /\ documentedEndpoints = 1
    /\ exitCode = Some(0)

(***************************************************************************)
(* C14: a failure of synthesis or assembly on a document is not recovered  *)
(* per document: no later document is synthesized or persisted, no counts  *)
(* are reported, and the run ends with a failure status.  And no document  *)
(* the loop has gone past is one whose synthesis failed.                   *)
(***************************************************************************)
SynthesisFails(file) == AccumulatedOf(file).threw

C14_SynthesisFailureAborts ==
    InCli =>
        /\ \A j \in 1..Len(bruFiles) : j < fileIdx => ~SynthesisFails(bruFiles[j])
        /\ (pc \in {"thrown", "exited"} /\ fileIdx <= Len(bruFiles)) =>
            /\ SynthesisFails(bruFiles[fileIdx])
            /\ \A i \in Written : fsLog[i].file < fileIdx
            /\ \A k \in 1..Len(console) : console[k].text # "Documented"
            /\ pc = "exited" => exitCode = Some(1)

\* the first of two documents failed in synthesis; the second, which has
\* schemas to write, was never reached, and the run has ended in failure
C14_Witness ==
    /\ pc = "exited"
    /\ Len(bruFiles) = 2
    /\ fileIdx = 1
    /\ SynthesisFails(bruFiles[1])
    /\ ~SynthesisFails(bruFiles[2])
    /\ AccumulatedOf(bruFiles[2]).allZodSegments # <<>>
    /\ Written = {}
    /\ exitCode = Some(1)

\* the base identifiers of the documents of the palette, written out: the
\* method capitalised, then the path segments of the URL capitalised, without
\* template variable, origin, query and the colon of a path parameter
ExpectedBase(file) ==
    (IF file.method = Get THEN <<"G", "e", "t">> ELSE <<"P", "o", "s", "t">>)
    \o (CASE file.url = UrlA -> <<"A">>
          [] file.url = UrlB -> <<"B", "I">>
          [] file.url = UrlC -> <<"A">>
          [] file.url = UrlRoot -> <<>>)

StatusText(statusCode) ==
    CASE statusCode = 200 -> <<"2", "0", "0">>
      [] statusCode = 204 -> <<"2", "0", "4">>
      [] statusCode = 404 -> <<"4", "0", "4">>

\* the components of a document that carry data, under their expected suffix
ExpectedComponents(file) ==
    {c \in
        { <<<<"B", "o", "d", "y">>, file.body>>,
          <<<<"H", "e", "a", "d", "e", "r">>, file.headers>>,
          <<<<"Q", "u", "e", "r", "y">>, file.query>>,
          <<<<"P", "a", "r", "a", "m", "s">>, file.params>> }
        \cup {<<StatusText(file.responses[r].statusCode), file.responses[r].body>> :
                r \in 1..Len(file.responses)}
        \cup {<<StatusText(file.responses[r].statusCode) \o <<"H", "e", "a", "d", "e", "r">>,
                file.responses[r].headers>> : r \in 1..Len(file.responses)} :
     c[2].kind = "payload"}

C16_ResponseNamedByDisplayName ==
    \A i \in Written :
        LET file == bruFiles[fsLog[i].file]
        IN  \A r \in 1..Len(file.responses) :
                file.responses[r].body.kind = "payload" =>
                    LET typeName == toPascalCase(file.name)
                                        \o StatusText(file.responses[r].statusCode)
                        schemaName == toCamelCase(typeName) \o <<"S", "c", "h", "e", "m", "a">>
                    IN  /\ \E j \in 1..Len(fsLog[i].zodSegments) :
                              fsLog[i].zodSegments[j].name = schemaName
                        /\ \E j \in 1..Len(fsLog[i].typeExports) :
                              fsLog[i].typeExports[j] = <<typeName, schemaName>>

\* a reference that the rename map did not cover is left in the schema
RECURSIVE Unresolved(_)
Unresolved(node) ==
    \/ node.type = "" /\ node.ref # None
    \/ node.items # None /\ Unresolved(node.items[1])
    \/ \E j \in 1..Len(node.props) : Unresolved(node.props[j][2])

\* every reference of the draft resolves in its own definitions
Resolves(data) ==
    LET names == {data.defs[j][1] : j \in 1..Len(data.defs)}
        RECURSIVE In(_)
        In(node) ==
            /\ node.ref # None => node.ref[1] \in names
            /\ node.items # None => In(node.items[1])
            /\ \A j \in 1..Len(node.props) : In(node.props[j][2])
    IN  In(data.root) /\ \A j \in 1..Len(data.defs) : In(data.defs[j][2])

\* C17: when all references of the inferencer's draft resolve, no schema
\* handed to the renderer holds a reference that is not covered by the rename
\* map (every reference names a key of the definitions).
C17_NoDanglingReference ==
    \A i \in Written :
        LET file == bruFiles[fsLog[i].file]
        IN  (\A c \in 1..Len(ComponentsOf(file)) : Resolves(ComponentsOf(file)[c][2])) =>
                \A j \in 1..Len(fsLog[i].zodSegments) :
                    ~Unresolved(fsLog[i].zodSegments[j].schema)

\* C18: within one restructuring no definition name is assigned twice, and
\* no assigned name is the name of a definition the inferencer produced.
C18_AssignedNamesDistinct ==
    (pc = "restructured" /\ ~restructured.overflow) =>
        /\ \A j1, j2 \in 1..Len(restructured.assigned) :
              restructured.assigned[j1] = restructured.assigned[j2] => j1 = j2
        /\ \A j \in 1..Len(restructured.assigned) :
              \A k \in 1..Len(jsonSchema.defs) :
                  restructured.assigned[j] # jsonSchema.defs[k][1]

\* C19: restructuring returns for every finite draft schema, also for one
\* with a definition that references itself: the walk never exhausts the
\* call stack.
C19_RestructuringTerminates ==
    pc = "restructured" => ~restructured.overflow

\* C20: in every written unit each schema identifier is declared once, each
\* type alias references a schema declared in the unit, and each declared
\* schema has exactly one alias.
C20_AliasesMatchDeclarations ==
    \A i \in Written :
        LET segments == fsLog[i].zodSegments
            aliases == fsLog[i].typeExports
        IN  /\ \A j1, j2 \in 1..Len(segments) :
                  segments[j1].name = segments[j2].name => j1 = j2
            /\ \A a \in 1..Len(aliases) :
                  \E j \in 1..Len(segments) : segments[j].name = aliases[a][2]
            /\ \A j \in 1..Len(segments) :
                  Cardinality({a \in 1..Len(aliases) : aliases[a][2] = segments[j].name}) = 1

\* the fragments of the first n file-system calls
RECURSIVE FragmentsIn(_)
FragmentsIn(n) ==
    IF n = 0 THEN 0 ELSE FragmentsIn(n - 1) + Len(fsLog[n].zodSegments)

\* C21: when generateSchemas has returned, documentedEndpoints is the number
\* of documents with a component that carries data, createdSchemas is the
\* number of fragments of those documents, and a unit was written for
\* exactly those documents; neither counter ever decreases.
C21_CountersMatchWrites ==
    /\ [](pc = "returned" =>
            LET yielding == {j \in 1..Len(bruFiles) : ~AllAbsentOrEmpty(bruFiles[j])}
            IN  /\ documentedEndpoints = Cardinality(yielding)
                /\ {fsLog[i].file : i \in Written} = yielding
                /\ Cardinality(Written) = Cardinality(yielding)
                /\ createdSchemas = FragmentsIn(Len(fsLog)))
    /\ [][(pc \in {"files", "generateSchemas"}) =>
            (documentedEndpoints' >= documentedEndpoints
             /\ createdSchemas' >= createdSchemas)]_vars

C21_Witness ==
    /\ pc = "returned" /\ Len(bruFiles) = 2
    /\ AllAbsentOrEmpty(bruFiles[1]) /\ ~AllAbsentOrEmpty(bruFiles[2])
    /\ documentedEndpoints = 1 /\ Written = {2} /\ fsLog[2].file = 2
    /\ createdSchemas = Len(fsLog[2].zodSegments)
    /\ Len(fsLog[2].typeExports) < createdSchemas

\* the nodes of a kind (placeholder marker "const", lazy reference "lazy") in
\* a schema: the place of each, as the keys and item steps that lead to it,
\* with the schema identifier it carries
RECURSIVE Carried(_, _, _)
Carried(node, kind, at) ==
    (IF node.type = kind THEN {<<at, node.ref[1]>>} ELSE {})
    \cup (IF node.items = None THEN {} ELSE Carried(node.items[1], kind, Append(at, <<>>)))
    \cup UNION {Carried(node.props[j][2], kind, Append(at, node.props[j][1])) :
                    j \in 1..Len(node.props)}

\* the position in the unit of the declaration of a schema identifier
DeclaredAt(segments, name) == {j \in 1..Len(segments) : segments[j].name = name}

\* C22: in every written unit each placeholder marker that synthesis put in
\* a fragment has become a lazy reference to the identifier it carried, at
\* the same place, whether the identifier is declared before or after that
\* fragment, and no placeholder marker is left.
C22_MarkersBecomeLazyReferences ==
    \A i \in Written :
        LET fragments == AccumulatedOf(bruFiles[fsLog[i].file]).allZodSegments
            segments == fsLog[i].zodSegments
        IN  /\ Len(segments) = Len(fragments)
            /\ \A j \in 1..Len(segments) :
                /\ Carried(segments[j].schema, "const", <<>>) = {}
                /\ Carried(segments[j].schema, "lazy", <<>>)
                      = Carried(fragments[j].schema, "const", <<>>)

\* a written unit with a lazy reference to a schema declared after it and
\* one to a schema declared before it
C22_Witness ==
    \E i \in Written :
        LET segments == fsLog[i].zodSegments
        IN  /\ \E j \in 1..Len(segments) :
                \E c \in Carried(segments[j].schema, "lazy", <<>>) :
                    \E k \in DeclaredAt(segments, c[2]) : k > j
            /\ \E j \in 1..Len(segments) :
                \E c \in Carried(segments[j].schema, "lazy", <<>>) :
                    \E k \in DeclaredAt(segments, c[2]) : k < j

\* the components of a document that carry data, in the order payload,
\* headers, query parameters, path parameters, then response by response
\* body and headers: <<suffix, data>>
ExpectedOrder(file) ==
    SelectSeq(
        << <<<<"B", "o", "d", "y">>, file.body>>,
           <<<<"H", "e", "a", "d", "e", "r">>, file.headers>>,
           <<<<"Q", "u", "e", "r", "y">>, file.query>>,
           <<<<"P", "a", "r", "a", "m", "s">>, file.params>> >>
        \o [k \in 1..(2 * Len(file.responses)) |->
               LET response == file.responses[(k + 1) \div 2]
               IN  IF k % 2 = 1
                   THEN <<StatusText(response.statusCode), response.body>>
                   ELSE <<StatusText(response.statusCode) \o <<"H", "e", "a", "d", "e", "r">>,
                          response.headers>>],
        LAMBDA c : c[2].kind = "payload")

\* the declarations a sample of the palette gives, counted by hand: one for
\* the root, one for each lifted array item or inline object, one for each
\* definition of the inferencer that is left
ExpectedFragments(data) ==
    CASE data = FlatObject -> 1
      [] data = PostsInline -> 2
      [] data = PostsByRef -> 3
      [] data = HeaderObject -> 2
      [] data = NestedObject -> 3
      [] data = RecursiveRoot -> 1

\* the position of the last fragment of the c-th component
RECURSIVE EndOf(_, _)
EndOf(comps, c) ==
    IF c = 0 THEN 0 ELSE EndOf(comps, c - 1) + ExpectedFragments(comps[c][2])

\* C23: in every written unit the fragments of the components follow one
\* another in the order payload, headers, query parameters, path parameters,
\* then per response its body and its headers, and the last fragment of
\* each component is its root declaration, after its definitions.
C23_FragmentsInFixedOrder ==
    \A i \in Written :
        LET file == bruFiles[fsLog[i].file]
            comps == ExpectedOrder(file)
            segments == fsLog[i].zodSegments
            base == ExpectedBase(file)
        IN  /\ Len(segments) = EndOf(comps, Len(comps))
            /\ \A c \in 1..Len(comps) :
                  segments[EndOf(comps, c)].name =
                      <<LowerOf(base[1])>> \o Tail(base) \o comps[c][1]
                          \o <<"S", "c", "h", "e", "m", "a">>

\* a run that wrote the unit of a document with two responses, the second with
\* body and headers, and the unit of a document whose first component has a
\* definition before its root
C23_Witness ==
    /\ \E i \in Written :
          LET file == bruFiles[fsLog[i].file]
          IN  /\ Len(file.responses) = 2
              /\ Len(ExpectedOrder(file)) = 4
              /\ Len(fsLog[i].zodSegments) = 4
    /\ \E i \in Written :
          LET file == bruFiles[fsLog[i].file]
          IN  /\ Len(ExpectedOrder(file)) = 2
              /\ ExpectedFragments(ExpectedOrder(file)[1][2]) = 2
              /\ Len(fsLog[i].zodSegments) = 3

\* the definition a property of the root references, directly or as the item
\* of an array (absent when it references none)
ReferencedBy(prop) ==
    IF prop.type = "" /\ prop.ref # None THEN prop.ref
    ELSE IF prop.type = "array" /\ prop.items[1].ref # None THEN prop.items[1].ref
    ELSE None

\* the path-qualified name of the root's property key
OwnName(key, prop) ==
    baseName \o toPascalCase(key)
        \o (IF prop.type = "array" THEN <<"I", "t", "e", "m">> ELSE <<>>)

\* every definition of the inferencer is stored unchanged under its name
C24_OriginalsKept ==
    (pc = "restructured" /\ ~restructured.overflow) =>
        \A k \in 1..Len(jsonSchema.defs) :
            /\ HasDef(restructured, jsonSchema.defs[k][1])
            /\ GetDef(restructured, jsonSchema.defs[k][1]) = jsonSchema.defs[k][2]

\* C24: restructuring leaves every definition D of the inferencer as it was,
\* and two properties of the root that reference the same D (directly or
\* as array items) get two separate definitions, each under its own
\* path-qualified name.
C24_ReferencedDefinitionsCopied ==
    (pc = "restructured" /\ ~restructured.overflow) =>
        /\ C24_OriginalsKept
        /\ LET props == jsonSchema.root.props
           IN  \A p, q \in 1..Len(props) :
                  (p # q /\ ReferencedBy(props[p][2]) # None
                   /\ ReferencedBy(props[p][2]) = ReferencedBy(props[q][2])) =>
                      LET np == OwnName(props[p][1], props[p][2])
                          nq == OwnName(props[q][1], props[q][2])
                      IN  /\ HasDef(restructured, np) /\ HasDef(restructured, nq)
                          /\ np # nq
                          /\ restructured.defs[DefIndex(restructured, np)].id
                                # restructured.defs[DefIndex(restructured, nq)].id

\* the same on roots whose keys give distinct names
C24_OnDistinctNames ==
    (\A p, q \in 1..Len(jsonSchema.root.props) :
        p # q => toPascalCase(jsonSchema.root.props[p][1])
                    # toPascalCase(jsonSchema.root.props[q][1]))
    => C24_ReferencedDefinitionsCopied

\* the document d with the literal of its i-th block replaced by one that parses
WithLiteralA(d, i) == [d EXCEPT ![i] = [@ EXCEPT !.lit = Some(LitA)]]

\* the record f, parsed from document d whose i-th block holds a literal that
\* does not parse, next to the record g of the same document with a literal
\* that parses in its place: the body the literal stands for is absent and
\* every other field is the same
OnlyBodyMissing(d, i, f, g) ==
    LET rf == ResponsesOf(f)
        rg == ResponsesOf(g)
        firstOfKind == \A i2 \in 1..(i - 1) : d[i2].kind # d[i].kind
        firstOfCode == \A i2 \in 1..(i - 1) : PieceCode(d[i2]) # PieceCode(d[i])
    IN  /\ f.headers = g.headers /\ f.query = g.query /\ f.params = g.params
        /\ Len(rf) = Len(rg)
        /\ \A j \in 1..Len(rf) :
              /\ rf[j].statusCode = rg[j].statusCode
              /\ rf[j].headers = rg[j].headers
        /\ IF d[i].kind = "body:json"
           THEN /\ f.body = (IF firstOfKind THEN None ELSE g.body)
                /\ \A j \in 1..Len(rf) : rf[j].body = rg[j].body
           ELSE /\ f.body = g.body
                /\ \A j \in 1..Len(rf) :
                      rf[j].body =
                          (IF firstOfCode /\ rf[j].statusCode = NumberOf(d[i].code[1])
                           THEN None ELSE rg[j].body)

\* the blocks of the document that hold a literal that does not parse
MalformedLiterals ==
    {i \in 1..Len(doc) :
        /\ doc[i].lit # None /\ JSON5Parse(doc[i].lit[1]) = None
        /\ doc[i].kind = "example" => (doc[i].code # None /\ NumberOf(doc[i].code[1]) > 0)}

C26_NothingToProcess ==
    LET noFiles == inDirExists /\ ~globThrows /\ files = <<>>
        environmentFails == ~inDirExists \/ globThrows
    IN  (noFiles \/ environmentFails) =>
            /\ pc \in {"action", "exited"}
            /\ parseIdx = 1 /\ bruFiles = <<>> /\ fsLog = <<>>
            /\ documentedEndpoints = 0 /\ createdSchemas = 0
            /\ pc = "exited" =>
                /\ Len(console) = 1
                /\ noFiles =>
                    /\ console[1].text = "No .bru files found."
                    /\ exitCode = Some(0)
                /\ environmentFails =>
                    /\ console[1].text \in {"Input directory does not exist",
                                            "Error finding files"}
                    /\ exitCode = Some(1)

\* a run over an existing directory without input files has ended
C26_Witness ==
    /\ pc = "exited" /\ inDirExists /\ ~globThrows /\ files = <<>>
    /\ exitCode = Some(0) /\ fsLog = <<>>
    /\ console = <<Logged("No .bru files found.", 0, 0)>>

====
